---- MODULE Spec2Model ----
(***************************************************************************)
(* Model of the hybrid retrieval-and-routing pipeline:                     *)
(*   server/services/HybridRagService.js  (query router)                   *)
(*   server/services/geminiAI.js          (LLM wrapper)                    *)
(*   server/services/documentProcessor.js (parseFile)                      *)
(*                                                                         *)
(* Texts are sequences of tokens (a token stands for one character or one  *)
(* indivisible run of non-special characters).  Document bodies are        *)
(* run-length encoded: a sequence of runs [ch, n].  Similarity scores are  *)
(* integers in ten-thousandths (0.65 is 6500).                             *)
(***************************************************************************)
EXTENDS Integers, Sequences, FiniteSets, TLC

\* ------------------------------------------------------------------ bounds
\* Longest chunk list the similarity search hands back in the model.
MaxChunks == 2
\* Longest text, largest chunk size and largest overlap given to chunkText,
\* next to the configured 512/100 with texts of 1000 characters.
MaxTextLen == 4
MaxChunkSize == 3
MaxChunkOverlap == 3
\* Most timestamps the chat page takes (two per message sent and answered).
MaxTimestamps == 4

\* ------------------------------------------------------- program constants
RAG_CONFIDENCE_THRESHOLD == 6500
SearchLimit == 5
MinSummaryChars == 100
SummaryMaxChars == 10000
DefaultChunkSize == 512
DefaultChunkOverlap == 100

Null == "null"

\* ------------------------------------------------------------ text helpers
IsSpace(tok) == tok = " "

RECURSIVE TrimStart(_)
TrimStart(s) ==
    IF s = <<>> THEN <<>>
    ELSE IF IsSpace(Head(s)) THEN TrimStart(Tail(s)) ELSE s

RECURSIVE TrimEnd(_)
TrimEnd(s) ==
    IF s = <<>> THEN <<>>
    ELSE IF IsSpace(s[Len(s)]) THEN TrimEnd(SubSeq(s, 1, Len(s) - 1)) ELSE s

\* String.prototype.trim on a token text
Trim(s) == TrimEnd(TrimStart(s))

\* replace(/["*]/g, '')
StripQuotesAndStars(s) == SelectSeq(s, LAMBDA tok : tok \notin {"\"", "*"})

\* ---------------------------------------------- run-length encoded documents
RECURSIVE RunsLength(_)
RunsLength(runs) ==
    IF runs = <<>> THEN 0 ELSE Head(runs).n + RunsLength(Tail(runs))

RECURSIVE RunsTrimStart(_)
RunsTrimStart(runs) ==
    IF runs = <<>> THEN <<>>
    ELSE IF IsSpace(Head(runs).ch) THEN RunsTrimStart(Tail(runs)) ELSE runs

RECURSIVE RunsTrimEnd(_)
RunsTrimEnd(runs) ==
    IF runs = <<>> THEN <<>>
    ELSE IF IsSpace(runs[Len(runs)].ch)
         THEN RunsTrimEnd(SubSeq(runs, 1, Len(runs) - 1)) ELSE runs

\* fileContent.trim()
RunsTrim(runs) == RunsTrimEnd(RunsTrimStart(runs))

\* content.substring(0, k)
RECURSIVE RunsSubstring(_, _)
RunsSubstring(runs, k) ==
    IF runs = <<>> \/ k <= 0 THEN <<>>
    ELSE IF Head(runs).n <= k
         THEN <<Head(runs)>> \o RunsSubstring(Tail(runs), k - Head(runs).n)
         ELSE <<[ch |-> Head(runs).ch, n |-> k]>>

\* ------------------------------------------------------------ LLM provider
\* What the provider can send back for one generateContent call.
T_broad    == <<"Sure:", " ", "{", "\"type\":\"broad\"", ",", "\"reason\":\"r\"", "}">>
T_specific == <<"{", "\"type\":\"specific\"", ",", "\"reason\":\"r\"", "}">>
T_other    == <<"{", "\"type\":\"overview\"", "}">>
T_notype   == <<"{", "}">>
T_badjson  == <<"{", "oops", "}">>
T_plain    == <<" ", "\"", "what", " ", "*", "is", "*", " ", "x", "\"", " ">>

Texts == {T_broad, T_specific, T_other, T_notype, T_badjson, T_plain}

Candidate(fr, hasText, text, blocked) ==
    [hasCandidate |-> TRUE, finishReason |-> fr, hasText |-> hasText,
     text |-> text, blocked |-> blocked]

NoCandidate ==
    [hasCandidate |-> FALSE, finishReason |-> "", hasText |-> FALSE,
     text |-> <<>>, blocked |-> <<>>]

CompletedResponses ==
    {Candidate("STOP", TRUE, t, <<>>) : t \in Texts}
      \cup {Candidate("MAX_TOKENS", TRUE, T_plain, <<>>)}

BlockedResponses ==
    {Candidate("SAFETY", FALSE, <<>>, <<"HARM_CATEGORY_HARASSMENT">>),
     Candidate("SAFETY", FALSE, <<>>, <<>>),
     Candidate("RECITATION", TRUE, T_plain, <<>>)}

EmptyResponses == {Candidate("STOP", FALSE, <<>>, <<>>), NoCandidate}

Responses == CompletedResponses \cup BlockedResponses \cup EmptyResponses

ProviderErrors == {<<"fetch failed">>}

\* Outcome of model.generateContent(prompt): rejects, or resolves to a response
LLMOutcomes ==
    {[threw |-> TRUE, error |-> e, response |-> NoCandidate] : e \in ProviderErrors}
      \cup {[threw |-> FALSE, error |-> <<>>, response |-> r] : r \in Responses}

Ok(v)    == [ok |-> TRUE,  value |-> v,    error |-> <<>>]
Fail(e)  == [ok |-> FALSE, value |-> <<>>, error |-> e]

RECURSIVE JoinComma(_)
JoinComma(s) ==
    IF s = <<>> THEN <<>>
    ELSE IF Len(s) = 1 THEN s
    ELSE <<Head(s), ", ">> \o JoinComma(Tail(s))

\* geminiAI._processApiResponse
ProcessApiResponse(response) ==
    IF /\ response.hasCandidate
       /\ response.finishReason \in {"STOP", "MAX_TOKENS"}
       /\ response.hasText
    THEN Ok(response.text)
    ELSE LET finishReason ==
                 IF response.hasCandidate /\ response.finishReason # ""
                 THEN response.finishReason ELSE "Unknown"
             blockedCategories == JoinComma(response.blocked)
             blockMessage ==
                 <<"AI response generation failed. Reason: ", finishReason, ".">>
                 \o (IF blockedCategories # <<>>
                     THEN <<" Blocked Categories: ">> \o blockedCategories \o <<".">>
                     ELSE <<>>)
         IN  Fail(blockMessage)

\* Mutation: without a model, generateText resolves to a canned text
GenerateTextCanned(isEnabled, outcome) ==
    IF ~isEnabled THEN Ok(<<"AI service is not available.">>)
    ELSE IF outcome.threw \/ ~ProcessApiResponse(outcome.response).ok
         THEN Fail(<<"Failed to generate text response">>)
         ELSE Ok(ProcessApiResponse(outcome.response).value)

\* geminiAI.generateText, given whether the model is initialised and what the
\* provider does when it is called
GenerateText(isEnabled, outcome) ==
    IF ~isEnabled THEN Fail(<<"AI service is not available.">>)
    ELSE IF outcome.threw \/ ~ProcessApiResponse(outcome.response).ok
         THEN Fail(<<"Failed to generate text response">>)
         ELSE Ok(ProcessApiResponse(outcome.response).value)

\* ---------------------------------------------------------- query classifier
\* Index of the first "{" and of the last "}" of a text (0 when there is none)
FirstIndexOf(s, tok) ==
    IF \E i \in 1..Len(s) : s[i] = tok
    THEN CHOOSE i \in 1..Len(s) : s[i] = tok /\ \A j \in 1..(i - 1) : s[j] # tok
    ELSE 0

LastIndexOf(s, tok) ==
    IF \E i \in 1..Len(s) : s[i] = tok
    THEN CHOOSE i \in 1..Len(s) : s[i] = tok /\ \A j \in (i + 1)..Len(s) : s[j] # tok
    ELSE 0

\* text.match(/\{[\s\S]*\}/): greedy, from the first "{" to the last "}"
JsonMatch(text) ==
    LET i == FirstIndexOf(text, "{")
        j == LastIndexOf(text, "}")
    IN  IF i > 0 /\ j > i THEN SubSeq(text, i, j) ELSE <<>>

JsonMembers ==
    {"\"type\":\"broad\"", "\"type\":\"specific\"", "\"type\":\"overview\"",
     "\"reason\":\"r\""}

MemberKey(m) == IF m = "\"reason\":\"r\"" THEN "reason" ELSE "type"

MemberValue(m) ==
    CASE m = "\"type\":\"broad\""    -> "broad"
      [] m = "\"type\":\"specific\"" -> "specific"
      [] m = "\"type\":\"overview\"" -> "overview"
      [] OTHER                       -> "r"

\* JSON.parse accepts "{" member ("," member)* "}" or "{" "}"
JsonValid(m) ==
    LET body == SubSeq(m, 2, Len(m) - 1)
    IN  /\ Len(m) >= 2 /\ m[1] = "{" /\ m[Len(m)] = "}"
        /\ \/ body = <<>>
           \/ /\ Len(body) % 2 = 1
              /\ \A i \in 1..Len(body) :
                    IF i % 2 = 1 THEN body[i] \in JsonMembers ELSE body[i] = ","

\* Value of a key in the parsed object (the last member with that key wins)
JsonField(m, key) ==
    LET body == SubSeq(m, 2, Len(m) - 1)
        idx  == {i \in 1..Len(body) : body[i] \in JsonMembers /\ MemberKey(body[i]) = key}
    IN  IF idx = {} THEN "undefined"
        ELSE MemberValue(body[CHOOSE i \in idx : \A j \in idx : j <= i])

\* Mutation: a failed analysis defaults to 'broad'
DetermineQueryTypeOfBroadDefault(isEnabled, outcome) ==
    IF ~isEnabled THEN [type |-> "specific", reason |-> "AI disabled"]
    ELSE IF outcome.threw \/ ~ProcessApiResponse(outcome.response).ok
         THEN [type |-> "broad", reason |-> "Error during analysis."]
         ELSE LET text      == ProcessApiResponse(outcome.response).value
                  jsonMatch == JsonMatch(text)
              IN  IF jsonMatch # <<>>
                  THEN IF JsonValid(jsonMatch)
                       THEN [type   |-> JsonField(jsonMatch, "type"),
                             reason |-> JsonField(jsonMatch, "reason")]
                       ELSE [type |-> "broad", reason |-> "Error during analysis."]
                  ELSE [type |-> "specific",
                        reason |-> "Could not parse AI response for query type."]

\* geminiAI.determineQueryType
DetermineQueryTypeOf(isEnabled, outcome) ==
    IF ~isEnabled THEN [type |-> "specific", reason |-> "AI disabled"]
    ELSE IF outcome.threw \/ ~ProcessApiResponse(outcome.response).ok
         THEN [type |-> "specific", reason |-> "Error during analysis."]
         ELSE LET text      == ProcessApiResponse(outcome.response).value
                  jsonMatch == JsonMatch(text)
              IN  IF jsonMatch # <<>>
                  THEN IF JsonValid(jsonMatch)
                       THEN [type   |-> JsonField(jsonMatch, "type"),
                             reason |-> JsonField(jsonMatch, "reason")]
                       ELSE [type |-> "specific", reason |-> "Error during analysis."]
                  ELSE [type |-> "specific",
                        reason |-> "Could not parse AI response for query type."]

\* ------------------------------------------------------------ collaborators
Users == {"u1", "u2"}

\* The File collection
Files ==
    {[id |-> "f1", user |-> "u1", originalname |-> "a.pdf",     ext |-> ".pdf"],
     [id |-> "f2", user |-> "u2", originalname |-> "notes.txt", ext |-> ".txt"],
     [id |-> "f3", user |-> "u1", originalname |-> "pic.png",   ext |-> ".png"]}

NoFile == [id |-> Null, user |-> Null, originalname |-> Null, ext |-> Null]

FileIds == {f.id : f \in Files}

Queries == {<<"summarise", " ", "this">>, <<"what", " ", "is", " ", "x">>}

\* Mutation: the document is looked up by its id alone
FindOneAnyOwner(id, user) ==
    IF \E f \in Files : f.id = id
    THEN CHOOSE f \in Files : f.id = id
    ELSE NoFile

\* File.findOne({ _id: fileId, user: userId }): the matching document or null
FindOne(id, user) ==
    IF \E f \in Files : f.id = id /\ f.user = user
    THEN CHOOSE f \in Files : f.id = id /\ f.user = user
    ELSE NoFile

DbErrors == {<<"MongoNetworkError">>}

Run(ch, n) == [ch |-> ch, n |-> n]

\* What a file on disk can hold
DocTexts ==
    {<<>>,
     <<Run(" ", MinSummaryChars + 50)>>,
     <<Run(" ", 5), Run("x", MinSummaryChars - 1), Run(" ", 5)>>,
     <<Run("x", MinSummaryChars)>>,
     <<Run(" ", 3), Run("x", SummaryMaxChars), Run("y", 50)>>}

DiskOutcomes ==
    {[threw |-> TRUE, text |-> <<>>]} \cup {[threw |-> FALSE, text |-> t] : t \in DocTexts}

\* documentProcessor.parseFile
ParseFile(ext, disk) ==
    IF ext \notin {".txt", ".pdf", ".docx"} THEN <<>>
    ELSE IF disk.threw THEN <<>>
    ELSE disk.text

\* The chunks the index can hand back
ChunkPool ==
    {[score |-> 9000, fileName |-> "a.pdf",     content |-> <<"alpha">>],
     [score |-> 6501, fileName |-> "notes.txt", content |-> <<"beta">>],
     [score |-> 6500, fileName |-> "a.pdf",     content |-> <<"gamma">>],
     [score |-> 6499, fileName |-> "notes.txt", content |-> <<"delta">>],
     [score |-> 7000, fileName |-> "",          content |-> <<"eps">>]}

ChunkLists == UNION {[1..n -> ChunkPool] : n \in 0..MaxChunks}

SearchErrors == {<<"vector store unavailable">>}

\* User.findById: a user document (with its profile) or null
UserOutcomes ==
    {[threw |-> TRUE,  found |-> FALSE, profile |-> <<>>],
     [threw |-> FALSE, found |-> FALSE, profile |-> <<>>],
     [threw |-> FALSE, found |-> TRUE,  profile |-> <<>>],
     [threw |-> FALSE, found |-> TRUE,  profile |-> <<"prefers brief answers">>]}

\* errorUtils.handleGeminiError: wraps the error it is given
HandleGeminiError(error) == <<"GeminiError: ">> \o error

\* -------------------------------------------------------------------- state
VARIABLES
    aiEnabled,       \* geminiAI.isEnabled(): the model was initialised
    pc,              \* position of the current processQuery run
    query, userId, fileId,     \* arguments of processQuery
    queryAnalysis,   \* what determineQueryType returned
    handlers,        \* the handlers processQuery has invoked, in order
    correctedQuery,  \* _handleSpecificQuery: the corrector's output
    searchRequest,   \* arguments of vectorStore.searchDocuments
    relevantChunks,  \* what searchDocuments returned
    file,            \* _handleBroadQuery: the resolved File document
    fileContent,     \* _handleBroadQuery: what parseFile returned
    personalizationProfile,
    calls,           \* collaborator calls made while this query is handled
    prompt,          \* the prompt last handed to model.generateContent
    llmOutcome,      \* what the provider did with that prompt
    lastCall,        \* the collaborator call made last and whether it succeeded
    caught,          \* the error caught by _handleBroadQuery's catch block
    result,          \* the value processQuery resolved to
    thrown,          \* the error processQuery rejected with
    parked,          \* the locals of the other processQuery call in flight
    running,         \* which of the two calls the variables above belong to
    cpc,             \* position of the current chunkText run
    text, filename,  \* arguments of chunkText
    chunkSize, chunkOverlap,   \* this.chunkSize, this.chunkOverlap
    startIndex, chunkIndex,    \* chunkText: the loop variables
    textChunks       \* chunkText: the array chunks, as pushed so far

VARIABLES
    ipc,              \* position of the current processFile run
    filePath,         \* arguments of processFile
    options,
    parsedText,       \* processFile: what parseFile returned
    documentsToStore, \* processFile: the chunks with owner metadata
    storeCalls,       \* the calls of vectorStore.addDocuments and their outcomes
    ingestResult,     \* what processFile returned
    ingestThrown      \* what processFile threw

VARIABLES
    messages,            \* ChatPage state: the message list
    loadingStates,       \* the loading flags set by handleSendMessage
    chatError,           \* the error banner
    sidebarView,         \* which sidebar widget is rendered
    sessionId,
    activeFileForRag,
    isDeepSearchEnabled,
    ragSourceInfo,
    sendRequest,         \* the request awaited by handleSendMessage
    loadRequests,        \* the getSessionDetails requests in flight
    clock                \* new Date(): the number of timestamps taken

vars == <<aiEnabled, pc, query, userId, fileId, queryAnalysis, handlers,
          correctedQuery, searchRequest, relevantChunks, file, fileContent,
          personalizationProfile, calls, prompt, llmOutcome, lastCall, caught,
          result, thrown, parked, running, cpc, text, filename, chunkSize,
          chunkOverlap, startIndex, chunkIndex, textChunks,
          ipc, filePath, options, parsedText, documentsToStore, storeCalls,
          ingestResult, ingestThrown,
          messages, loadingStates, chatError, sidebarView, sessionId,
          activeFileForRag, isDeepSearchEnabled, ragSourceInfo, sendRequest,
          loadRequests, clock>>

chatVars == <<messages, loadingStates, chatError, sidebarView, sessionId,
              activeFileForRag, isDeepSearchEnabled, ragSourceInfo, sendRequest,
              loadRequests, clock>>

ingestVars == <<ipc, filePath, options, parsedText, documentsToStore, storeCalls,
                ingestResult, ingestThrown>>

chunkerVars == <<cpc, text, filename, chunkSize, chunkOverlap, startIndex,
                 chunkIndex, textChunks>>

NoError    == <<>>
NoResult   == [searchType |-> "none", message |-> <<>>, sources |-> <<>>]
NoAnalysis == [type |-> "none", reason |-> "none"]
NoPrompt   == [kind |-> "none", query |-> <<>>, context |-> <<>>,
               profile |-> <<>>, content |-> <<>>]
NoOutcome  == [threw |-> FALSE, error |-> <<>>, response |-> NoCandidate]
NoCall     == [call |-> "none", ok |-> TRUE]
NoRequest  == [query |-> <<>>, limit |-> 0, filters |-> [userId |-> Null]]

\* The locals of one processQuery call
Locals ==
    [pc |-> pc, query |-> query, userId |-> userId, fileId |-> fileId,
     queryAnalysis |-> queryAnalysis, handlers |-> handlers,
     correctedQuery |-> correctedQuery, searchRequest |-> searchRequest,
     relevantChunks |-> relevantChunks, file |-> file, fileContent |-> fileContent,
     personalizationProfile |-> personalizationProfile, calls |-> calls,
     prompt |-> prompt, llmOutcome |-> llmOutcome, lastCall |-> lastCall,
     caught |-> caught, result |-> result, thrown |-> thrown]

\* The locals of a call that has not started
IdleLocals ==
    [pc |-> "idle", query |-> <<>>, userId |-> Null, fileId |-> Null,
     queryAnalysis |-> NoAnalysis, handlers |-> <<>>,
     correctedQuery |-> <<>>, searchRequest |-> NoRequest,
     relevantChunks |-> <<>>, file |-> NoFile, fileContent |-> <<>>,
     personalizationProfile |-> <<>>, calls |-> <<>>,
     prompt |-> NoPrompt, llmOutcome |-> NoOutcome, lastCall |-> NoCall,
     caught |-> NoError, result |-> NoResult, thrown |-> NoError]

\* A step of one processQuery call touches neither the other call nor the chunker
OutsideRouter ==
    /\ UNCHANGED <<parked, running>>
    /\ UNCHANGED chunkerVars
    /\ UNCHANGED ingestVars
    /\ UNCHANGED chatVars

Count(log, name) == Cardinality({i \in 1..Len(log) : log[i] = name})

\* ----------------------------------------------------------- result builders
Source(title) == [title |-> title, type |-> "document"]

RequiresFileResult ==
    [message |-> <<"To get a summary, please first select a specific file to chat with from the 'My Files' menu.">>,
     searchType |-> "summary_requires_file", sources |-> <<>>]

InsufficientContentResult(f) ==
    [message |-> <<"The selected document doesn't have enough content to generate a summary.">>,
     searchType |-> "summary_insufficient_content",
     sources |-> <<Source(f.originalname)>>]

SummaryResult(summary, f) ==
    [message |-> summary, searchType |-> "summary",
     sources |-> <<Source(f.originalname)>>]

BroadApology ==
    <<"I encountered an error while trying to summarize the document. Please try again.">>

\* Mutation: the caught error's message is appended to the apology
BroadErrorResultLeaky(error) ==
    [message |-> BroadApology \o error, searchType |-> "summary_error",
     sources |-> <<>>]

\* the catch block of _handleBroadQuery
BroadErrorResult(error) ==
    [message |-> BroadApology, searchType |-> "summary_error", sources |-> <<>>]

\* Mutation: the library-wide wording is used whatever the scope
FallbackMessageLibraryOnly(fid) ==
    <<"I couldn't find a confident answer for that in ", "your uploaded documents",
      ". Please try rephrasing your question or uploading more relevant files.">>

\* _handleSpecificQuery: fallbackMessage
FallbackMessage(fid) ==
    IF fid # Null
    THEN <<"I couldn't find a confident answer for that in ", "the selected document",
           ". Please try rephrasing your question with more specific keywords.">>
    ELSE <<"I couldn't find a confident answer for that in ", "your uploaded documents",
           ". Please try rephrasing your question or uploading more relevant files.">>

FallbackResult(fid) ==
    [message |-> FallbackMessage(fid), searchType |-> "rag_fallback", sources |-> <<>>]

\* HybridRagService.formatSources: one entry per file name, first seen first
RECURSIVE FormatSourcesFrom(_, _)
FormatSourcesFrom(chunks, seen) ==
    IF chunks = <<>> THEN <<>>
    ELSE LET fileName == IF Head(chunks).fileName # "" THEN Head(chunks).fileName
                         ELSE "Unknown Document"
         IN  IF fileName \in seen THEN FormatSourcesFrom(Tail(chunks), seen)
             ELSE <<Source(fileName)>>
                    \o FormatSourcesFrom(Tail(chunks), seen \cup {fileName})

\* Mutation: one entry per chunk, nothing deduplicated
FormatSourcesPerChunk(chunks) ==
    [i \in 1..Len(chunks) |->
        Source(IF chunks[i].fileName # "" THEN chunks[i].fileName
               ELSE "Unknown Document")]

FormatSources(chunks) == FormatSourcesFrom(chunks, {})

RagResult(answer, chunks) ==
    [message |-> answer, searchType |-> "rag", sources |-> FormatSources(chunks),
     source_count |-> Len(chunks)]

\* relevantChunks.map(chunk => chunk.content).join('\n\n')
RECURSIVE Context(_)
Context(chunks) ==
    IF chunks = <<>> THEN <<>>
    ELSE IF Len(chunks) = 1 THEN Head(chunks).content
    ELSE Head(chunks).content \o <<"\n\n">> \o Context(Tail(chunks))

\* ------------------------------------------------------------------ prompts
ClassifyPrompt(q) ==
    [kind |-> "classify", query |-> q, context |-> <<>>, profile |-> <<>>,
     content |-> <<>>]

CorrectionPrompt(q) ==
    [kind |-> "correct", query |-> q, context |-> <<>>, profile |-> <<>>,
     content |-> <<>>]

\* geminiAI.buildRagPrompt
BuildRagPrompt(q, context, profile) ==
    [kind |-> "rag", query |-> q, context |-> context, profile |-> profile,
     content |-> <<>>]

\* Mutation: the whole document is put in the prompt
SummaryPromptWhole(content, q) ==
    [kind |-> "summarize", query |-> q, context |-> <<>>, profile |-> <<>>,
     content |-> content]

\* the prompt of geminiAI.summarizeDocumentContent
SummaryPrompt(content, q) ==
    [kind |-> "summarize", query |-> q, context |-> <<>>, profile |-> <<>>,
     content |-> RunsSubstring(content, SummaryMaxChars)]

\* geminiAI.summarizeDocumentContent
SummarizeDocumentContent(isEnabled, outcome) ==
    IF ~isEnabled THEN Ok(<<"AI service is unavailable.">>)
    ELSE IF outcome.threw THEN Fail(HandleGeminiError(outcome.error))
    ELSE IF ~ProcessApiResponse(outcome.response).ok
         THEN Fail(HandleGeminiError(ProcessApiResponse(outcome.response).error))
         ELSE Ok(ProcessApiResponse(outcome.response).value)

\* ---------------------------------------------------------------- decisions
\* Mutation: anything the classifier did not call 'specific' goes to the broad handler
HandlerForNotSpecific(analysis) ==
    IF analysis.type # "specific" THEN "broad" ELSE "specific"

\* processQuery: queryAnalysis.type === 'broad'
HandlerFor(analysis) == IF analysis.type = "broad" THEN "broad" ELSE "specific"

\* Mutation: the missing-file guard is dropped
FileIdMissingNever(fid) == FALSE

\* _handleBroadQuery: !fileId
FileIdMissing(fid) == fid = Null

\* Mutation: the length is taken without trimming
InsufficientContentNoTrim(content) ==
    content = <<>> \/ RunsLength(content) < MinSummaryChars

\* _handleBroadQuery: !fileContent || fileContent.trim().length < 100
InsufficientContent(content) ==
    content = <<>> \/ RunsLength(RunsTrim(content)) < MinSummaryChars

\* Mutation: the threshold itself is admitted (>= instead of >)
IsContextSufficientInclusive(chunks) ==
    Len(chunks) > 0 /\ chunks[1].score >= RAG_CONFIDENCE_THRESHOLD

\* _handleSpecificQuery: isContextSufficient
IsContextSufficient(chunks) ==
    Len(chunks) > 0 /\ chunks[1].score > RAG_CONFIDENCE_THRESHOLD

\* _handleSpecificQuery: the retrieval filters
Filters(uid, fid) ==
    IF fid # Null THEN [userId |-> uid, fileId |-> fid] ELSE [userId |-> uid]

\* Mutation: a failed correction leaves an empty query
CorrectedQueryOfEmptyOnFailure(q, generated) ==
    IF generated.ok THEN StripQuotesAndStars(Trim(generated.value)) ELSE <<>>

\* correctAndClarifyQuery, given what generateText did
CorrectedQueryOf(q, generated) ==
    IF generated.ok THEN StripQuotesAndStars(Trim(generated.value)) ELSE q

\* The provider is reached only when the model is initialised
ProviderOutcomes == IF aiEnabled THEN LLMOutcomes ELSE {NoOutcome}

LogLLM(name, p, o) ==
    /\ calls' = calls \o (IF aiEnabled THEN <<name, "generateContent">> ELSE <<name>>)
    /\ prompt' = IF aiEnabled THEN p ELSE prompt
    /\ llmOutcome' = IF aiEnabled THEN o ELSE llmOutcome

\* --------------------------------------------------------------------- Init
\* No chunkText run is in progress
NoOptions == [originalName |-> Null, userId |-> Null, fileId |-> Null]
NoIngestResult == [success |-> FALSE]

NoSend == [status |-> "none", mode |-> "none", userMessage |-> <<>>]

\* The chat page as it is mounted, before any event
ChatIdle ==
    /\ messages = <<>>
    /\ loadingStates = [chat |-> FALSE, deepSearch |-> FALSE]
    /\ chatError = ""
    /\ sidebarView = "files"
    /\ sessionId = "s0"
    /\ activeFileForRag = Null
    /\ isDeepSearchEnabled = FALSE
    /\ ragSourceInfo = Null
    /\ sendRequest = NoSend
    /\ loadRequests = {}
    /\ clock = 0

\* No processFile call is in flight
IngestIdle ==
    /\ ipc = "idle"
    /\ filePath = Null /\ options = NoOptions
    /\ parsedText = <<>>
    /\ documentsToStore = <<>>
    /\ storeCalls = <<>>
    /\ ingestResult = NoIngestResult
    /\ ingestThrown = NoError

ChunkerIdle ==
    /\ cpc = "idle"
    /\ text = <<>> /\ filename = Null
    /\ chunkSize = DefaultChunkSize /\ chunkOverlap = DefaultChunkOverlap
    /\ startIndex = 0 /\ chunkIndex = 0
    /\ textChunks = <<>>

Init ==
    /\ aiEnabled \in BOOLEAN
    /\ pc = "idle"
    /\ query = <<>> /\ userId = Null /\ fileId = Null
    /\ queryAnalysis = NoAnalysis
    /\ handlers = <<>>
    /\ correctedQuery = <<>>
    /\ searchRequest = NoRequest
    /\ relevantChunks = <<>>
    /\ file = NoFile
    /\ fileContent = <<>>
    /\ personalizationProfile = <<>>
    /\ calls = <<>>
    /\ prompt = NoPrompt
    /\ llmOutcome = NoOutcome
    /\ lastCall = NoCall
    /\ caught = NoError
    /\ result = NoResult
    /\ thrown = NoError
    /\ parked = IdleLocals
    /\ running = 1
    /\ ChunkerIdle
    /\ IngestIdle
    /\ ChatIdle

\* ------------------------------------------------------------- processQuery
\* A caller invokes processQuery(query, userId, fileId)
ProcessQuery(q, u, f) ==
    /\ pc = "idle"
    /\ pc' = "classify"
    /\ query' = q /\ userId' = u /\ fileId' = f
    /\ UNCHANGED <<aiEnabled, queryAnalysis, handlers, correctedQuery,
                   searchRequest, relevantChunks, file, fileContent,
                   personalizationProfile, calls, prompt, llmOutcome, lastCall,
                   caught, result, thrown>>
    /\ OutsideRouter

\* The promise has settled and the caller has taken the outcome: the locals of
\* the run are gone, the service object itself has no fields
Return ==
    /\ pc = "done"
    /\ pc' = "idle"
    /\ query' = <<>> /\ userId' = Null /\ fileId' = Null
    /\ queryAnalysis' = NoAnalysis
    /\ handlers' = <<>>
    /\ correctedQuery' = <<>>
    /\ searchRequest' = NoRequest
    /\ relevantChunks' = <<>>
    /\ file' = NoFile
    /\ fileContent' = <<>>
    /\ personalizationProfile' = <<>>
    /\ calls' = <<>>
    /\ prompt' = NoPrompt
    /\ llmOutcome' = NoOutcome
    /\ lastCall' = NoCall
    /\ caught' = NoError
    /\ result' = NoResult
    /\ thrown' = NoError
    /\ UNCHANGED aiEnabled
    /\ OutsideRouter

\* Mutation: the query is corrected first and the corrected text is classified
DetermineQueryTypeOnCorrected ==
    /\ pc = "classify"
    /\ \E o \in ProviderOutcomes :
          /\ queryAnalysis' = DetermineQueryTypeOf(aiEnabled, o)
          /\ correctedQuery' = CorrectedQueryOf(query, GenerateText(aiEnabled, o))
          /\ calls' = calls \o <<"generateText", "determineQueryType">>
          /\ prompt' = IF aiEnabled THEN ClassifyPrompt(correctedQuery') ELSE prompt
          /\ llmOutcome' = IF aiEnabled THEN o ELSE llmOutcome
    /\ lastCall' = [call |-> "determineQueryType", ok |-> TRUE]
    /\ pc' = "route"
    /\ UNCHANGED <<aiEnabled, query, userId, fileId, handlers,
                   searchRequest, relevantChunks, file, fileContent,
                   personalizationProfile, caught, result, thrown>>
    /\ OutsideRouter

\* Step 1: await geminiAI.determineQueryType(query)
DetermineQueryType ==
    /\ pc = "classify"
    /\ \E o \in ProviderOutcomes :
          /\ queryAnalysis' = DetermineQueryTypeOf(aiEnabled, o)
          /\ LogLLM("determineQueryType", ClassifyPrompt(query), o)
    /\ lastCall' = [call |-> "determineQueryType", ok |-> TRUE]
    /\ pc' = "route"
    /\ UNCHANGED <<aiEnabled, query, userId, fileId, handlers, correctedQuery,
                   searchRequest, relevantChunks, file, fileContent,
                   personalizationProfile, caught, result, thrown>>
    /\ OutsideRouter

\* Step 2: route to the handler
Route ==
    /\ pc = "route"
    /\ handlers' = Append(handlers, HandlerFor(queryAnalysis))
    /\ pc' = HandlerFor(queryAnalysis)
    /\ UNCHANGED <<aiEnabled, query, userId, fileId, queryAnalysis, correctedQuery,
                   searchRequest, relevantChunks, file, fileContent,
                   personalizationProfile, calls, prompt, llmOutcome, lastCall,
                   caught, result, thrown>>
    /\ OutsideRouter

\* -------------------------------------------------------- _handleBroadQuery
BroadUnchanged ==
    /\ UNCHANGED <<aiEnabled, query, userId, fileId, queryAnalysis, handlers,
                correctedQuery, searchRequest, relevantChunks,
                personalizationProfile, thrown>>
    /\ OutsideRouter

\* if (!fileId) return { ... summary_requires_file ... }
BroadRequireFile ==
    /\ pc = "broad"
    /\ IF FileIdMissing(fileId)
       THEN /\ result' = RequiresFileResult
            /\ pc' = "done"
       ELSE /\ result' = result
            /\ pc' = "b_find"
    /\ BroadUnchanged
    /\ UNCHANGED <<file, fileContent, calls, prompt, llmOutcome, lastCall, caught>>

\* const file = await File.findOne(...); if (!file) throw ...
BroadFindFile ==
    /\ pc = "b_find"
    /\ calls' = Append(calls, "File.findOne")
    /\ \/ \E e \in DbErrors :
             /\ lastCall' = [call |-> "File.findOne", ok |-> FALSE]
             /\ file' = file
             /\ caught' = e
             /\ result' = BroadErrorResult(e)
             /\ pc' = "done"
       \/ /\ lastCall' = [call |-> "File.findOne", ok |-> TRUE]
          /\ file' = FindOne(fileId, userId)
          /\ IF file' = NoFile
             THEN /\ caught' = <<"File not found for summarization.">>
                  /\ result' = BroadErrorResult(caught')
                  /\ pc' = "done"
             ELSE /\ caught' = caught
                  /\ result' = result
                  /\ pc' = "b_parse"
    /\ BroadUnchanged
    /\ UNCHANGED <<fileContent, prompt, llmOutcome>>

\* const fileContent = await documentProcessor.parseFile(file.path); length check
BroadParseFile ==
    /\ pc = "b_parse"
    /\ calls' = Append(calls, "parseFile")
    /\ lastCall' = [call |-> "parseFile", ok |-> TRUE]
    /\ \E d \in DiskOutcomes : fileContent' = ParseFile(file.ext, d)
    /\ IF InsufficientContent(fileContent')
       THEN /\ result' = InsufficientContentResult(file)
            /\ pc' = "done"
       ELSE /\ result' = result
            /\ pc' = "b_summarize"
    /\ BroadUnchanged
    /\ UNCHANGED <<file, prompt, llmOutcome, caught>>

\* const summary = await geminiAI.summarizeDocumentContent(fileContent, query)
BroadSummarize ==
    /\ pc = "b_summarize"
    /\ \E o \in ProviderOutcomes :
          LET summary == SummarizeDocumentContent(aiEnabled, o)
          IN  /\ LogLLM("summarizeDocumentContent", SummaryPrompt(fileContent, query), o)
              /\ lastCall' = [call |-> "summarizeDocumentContent", ok |-> summary.ok]
              /\ IF summary.ok
                 THEN /\ result' = SummaryResult(summary.value, file)
                      /\ caught' = caught
                 ELSE /\ caught' = summary.error
                      /\ result' = BroadErrorResult(summary.error)
    /\ pc' = "done"
    /\ BroadUnchanged
    /\ UNCHANGED <<file, fileContent>>

\* ----------------------------------------------------- _handleSpecificQuery
SpecificUnchanged ==
    /\ UNCHANGED <<aiEnabled, query, userId, fileId, queryAnalysis, handlers, file,
                   fileContent, caught>>
    /\ OutsideRouter

\* Mutation: the corrector passes the query through without asking the LLM
CorrectAndClarifyQueryOffline ==
    /\ pc = "specific"
    /\ correctedQuery' = query
    /\ lastCall' = [call |-> "correctAndClarifyQuery", ok |-> TRUE]
    /\ pc' = "s_search"
    /\ SpecificUnchanged
    /\ UNCHANGED <<searchRequest, relevantChunks, personalizationProfile, calls,
                   prompt, llmOutcome, result, thrown>>

\* const correctedQuery = await this.correctAndClarifyQuery(query)
CorrectAndClarifyQuery ==
    /\ pc = "specific"
    /\ \E o \in ProviderOutcomes :
          LET generated == GenerateText(aiEnabled, o)
          IN  /\ LogLLM("generateText", CorrectionPrompt(query), o)
              /\ lastCall' = [call |-> "correctAndClarifyQuery", ok |-> TRUE]
              /\ correctedQuery' = CorrectedQueryOf(query, generated)
    /\ pc' = "s_search"
    /\ SpecificUnchanged
    /\ UNCHANGED <<searchRequest, relevantChunks, personalizationProfile, result,
                   thrown>>

\* const relevantChunks = await vectorStore.searchDocuments(correctedQuery, ...)
SearchDocuments ==
    /\ pc = "s_search"
    /\ calls' = Append(calls, "searchDocuments")
    /\ searchRequest' = [query |-> correctedQuery, limit |-> SearchLimit,
                         filters |-> Filters(userId, fileId)]
    /\ \/ \E e \in SearchErrors :
             /\ lastCall' = [call |-> "searchDocuments", ok |-> FALSE]
             /\ relevantChunks' = relevantChunks
             /\ thrown' = e
             /\ pc' = "done"
       \/ \E chunks \in ChunkLists :
             /\ lastCall' = [call |-> "searchDocuments", ok |-> TRUE]
             /\ relevantChunks' = chunks
             /\ thrown' = thrown
             /\ pc' = "s_gate"
    /\ SpecificUnchanged
    /\ UNCHANGED <<correctedQuery, personalizationProfile, prompt, llmOutcome, result>>

\* const isContextSufficient = ...; if (isContextSufficient) ... else ...
ConfidenceGate ==
    /\ pc = "s_gate"
    /\ pc' = IF IsContextSufficient(relevantChunks) THEN "s_user" ELSE "s_fallback"
    /\ SpecificUnchanged
    /\ UNCHANGED <<correctedQuery, searchRequest, relevantChunks,
                   personalizationProfile, calls, prompt, llmOutcome, lastCall,
                   result, thrown>>

\* Mutation: the fallback branch looks the user up and asks the LLM first
ReturnFallbackAfterGeneration ==
    /\ pc = "s_fallback"
    /\ \E o \in ProviderOutcomes :
          LogLLM("generateText",
                 BuildRagPrompt(correctedQuery, Context(relevantChunks), <<>>), o)
    /\ result' = FallbackResult(fileId)
    /\ pc' = "done"
    /\ SpecificUnchanged
    /\ UNCHANGED <<correctedQuery, searchRequest, relevantChunks,
                   personalizationProfile, lastCall, thrown>>

\* else branch: the fixed fallback message
ReturnFallback ==
    /\ pc = "s_fallback"
    /\ result' = FallbackResult(fileId)
    /\ pc' = "done"
    /\ SpecificUnchanged
    /\ UNCHANGED <<correctedQuery, searchRequest, relevantChunks,
                   personalizationProfile, calls, prompt, llmOutcome, lastCall,
                   thrown>>

\* const user = await User.findById(userId); personalizationProfile
FindUser ==
    /\ pc = "s_user"
    /\ calls' = Append(calls, "User.findById")
    /\ \E u \in UserOutcomes :
          IF u.threw
          THEN /\ lastCall' = [call |-> "User.findById", ok |-> FALSE]
               /\ personalizationProfile' = personalizationProfile
               /\ \E e \in DbErrors : thrown' = e
               /\ pc' = "done"
          ELSE /\ lastCall' = [call |-> "User.findById", ok |-> TRUE]
               /\ personalizationProfile' = IF u.found THEN u.profile ELSE <<>>
               /\ thrown' = thrown
               /\ pc' = "s_generate"
    /\ SpecificUnchanged
    /\ UNCHANGED <<correctedQuery, searchRequest, relevantChunks, prompt,
                   llmOutcome, result>>

\* Mutation: a failed generation is turned into the fallback result
GenerateAnswerSoft ==
    /\ pc = "s_generate"
    /\ \E o \in ProviderOutcomes :
          LET answer == GenerateText(aiEnabled, o)
          IN  /\ LogLLM("generateText",
                        BuildRagPrompt(correctedQuery, Context(relevantChunks),
                                       personalizationProfile), o)
              /\ lastCall' = [call |-> "generateText", ok |-> answer.ok]
              /\ result' = IF answer.ok THEN RagResult(answer.value, relevantChunks)
                           ELSE FallbackResult(fileId)
              /\ thrown' = thrown
    /\ pc' = "done"
    /\ SpecificUnchanged
    /\ UNCHANGED <<correctedQuery, searchRequest, relevantChunks,
                   personalizationProfile>>

\* const answer = await geminiAI.generateText(prompt); return { ... rag ... }
GenerateAnswer ==
    /\ pc = "s_generate"
    /\ \E o \in ProviderOutcomes :
          LET answer == GenerateText(aiEnabled, o)
          IN  /\ LogLLM("generateText",
                        BuildRagPrompt(correctedQuery, Context(relevantChunks),
                                       personalizationProfile), o)
              /\ lastCall' = [call |-> "generateText", ok |-> answer.ok]
              /\ IF answer.ok
                 THEN /\ result' = RagResult(answer.value, relevantChunks)
                      /\ thrown' = thrown
                 ELSE /\ result' = result
                      /\ thrown' = answer.error
    /\ pc' = "done"
    /\ SpecificUnchanged
    /\ UNCHANGED <<correctedQuery, searchRequest, relevantChunks,
                   personalizationProfile>>

\* --------------------------------------------------------------------- Next
Next ==
    \/ \E q \in Queries, u \in Users, f \in FileIds \cup {Null} : ProcessQuery(q, u, f)
    \/ DetermineQueryType
    \/ Route
    \/ BroadRequireFile
    \/ BroadFindFile
    \/ BroadParseFile
    \/ BroadSummarize
    \/ CorrectAndClarifyQuery
    \/ SearchDocuments
    \/ ConfidenceGate
    \/ ReturnFallback
    \/ FindUser
    \/ GenerateAnswer
    \/ Return

Spec == Init /\ [][Next]_vars

\* ------------------------------------------ the specific path after the search
\* Every list of up to `limit` chunks the search can resolve to
FullChunkLists == UNION {[1..n -> ChunkPool] : n \in 0..SearchLimit}

\* A specific query of user u1 whose search has just returned: the classifier
\* said 'specific', the corrector returned the cleaned text of T_plain
InitRetrieved ==
    /\ aiEnabled = TRUE
    /\ pc = "s_gate"
    /\ query = <<"what", " ", "is", " ", "x">>
    /\ userId = "u1"
    /\ fileId \in {Null, "f1"}
    /\ queryAnalysis = [type |-> "specific", reason |-> "r"]
    /\ handlers = <<"specific">>
    /\ correctedQuery = CorrectedQueryOf(query, Ok(T_plain))
    /\ searchRequest = [query |-> correctedQuery, limit |-> SearchLimit,
                        filters |-> Filters(userId, fileId)]
    /\ relevantChunks \in FullChunkLists
    /\ file = NoFile
    /\ fileContent = <<>>
    /\ personalizationProfile = <<>>
    /\ calls = <<"determineQueryType", "generateContent", "generateText",
                 "generateContent", "searchDocuments">>
    /\ prompt = CorrectionPrompt(query)
    /\ llmOutcome = [threw |-> FALSE, error |-> <<>>,
                     response |-> Candidate("STOP", TRUE, T_plain, <<>>)]
    /\ lastCall = [call |-> "searchDocuments", ok |-> TRUE]
    /\ caught = NoError
    /\ result = NoResult
    /\ thrown = NoError
    /\ parked = IdleLocals
    /\ running = 1
    /\ ChunkerIdle
    /\ IngestIdle
    /\ ChatIdle

NextRetrieved ==
    \/ ConfidenceGate
    \/ ReturnFallback
    \/ FindUser
    \/ GenerateAnswer

SpecRetrieved == InitRetrieved /\ [][NextRetrieved]_vars

\* ------------------------------------------------- two calls in flight at once
\* HybridRagService has no fields: everything a call works with lives in the
\* locals of its own async invocation.  Between two steps of one call the event
\* loop may run a step of the other: its locals are brought in, the current
\* ones are put aside.
SwitchTo(other) ==
    /\ pc' = other.pc
    /\ query' = other.query /\ userId' = other.userId /\ fileId' = other.fileId
    /\ queryAnalysis' = other.queryAnalysis
    /\ handlers' = other.handlers
    /\ correctedQuery' = other.correctedQuery
    /\ searchRequest' = other.searchRequest
    /\ file' = other.file
    /\ fileContent' = other.fileContent
    /\ personalizationProfile' = other.personalizationProfile
    /\ calls' = other.calls
    /\ prompt' = other.prompt
    /\ llmOutcome' = other.llmOutcome
    /\ lastCall' = other.lastCall
    /\ caught' = other.caught
    /\ result' = other.result
    /\ thrown' = other.thrown
    /\ running' = 3 - running
    /\ UNCHANGED aiEnabled
    /\ UNCHANGED chunkerVars
    /\ UNCHANGED ingestVars
    /\ UNCHANGED chatVars

\* Mutation: relevantChunks is a field of the service object, shared by the calls
SwitchSharedChunks ==
    /\ parked' = Locals
    /\ UNCHANGED relevantChunks
    /\ SwitchTo(parked)

Switch ==
    /\ parked' = Locals
    /\ relevantChunks' = parked.relevantChunks
    /\ SwitchTo(parked)

\* Collaborators that answer each request by its content alone
ProviderFor(p) ==
    [threw |-> FALSE, error |-> <<>>,
     response |->
        CASE p.kind = "classify" ->
                 IF p.query = <<"summarise", " ", "this">>
                 THEN Candidate("STOP", TRUE, T_broad, <<>>)
                 ELSE Candidate("STOP", TRUE, T_specific, <<>>)
          [] p.kind = "correct" -> Candidate("STOP", TRUE, T_plain, <<>>)
          [] p.kind = "rag" ->
                 IF p.profile = <<>> /\ Len(p.context) = 1
                 THEN Candidate("STOP", TRUE, T_plain, <<>>)
                 ELSE IF p.profile = <<>>
                      THEN Candidate("STOP", TRUE, T_other, <<>>)
                      ELSE Candidate("SAFETY", FALSE, <<>>, <<>>)
          [] OTHER ->
                 IF RunsLength(p.content) >= SummaryMaxChars
                 THEN Candidate("STOP", TRUE, T_plain, <<>>)
                 ELSE Candidate("STOP", TRUE, T_notype, <<>>)]

IndexFor(request) ==
    LET pick(score) == CHOOSE c \in ChunkPool : c.score = score
    IN  IF "fileId" \in DOMAIN request.filters
        THEN IF request.filters.fileId = "f1" THEN <<pick(9000)>> ELSE <<>>
        ELSE IF request.filters.userId = "u1"
             THEN <<pick(6500), pick(9000)>>
             ELSE <<pick(6501), pick(6499)>>

ProfileFor(uid) == IF uid = "u2" THEN <<"prefers brief answers">> ELSE <<>>

DiskFor(f) ==
    IF f.id = "f1"
    THEN [threw |-> FALSE,
          text |-> <<Run(" ", 3), Run("x", SummaryMaxChars), Run("y", 50)>>]
    ELSE [threw |-> FALSE, text |-> <<Run("x", MinSummaryChars)>>]

\* What one call returns or throws when it runs alone against these collaborators
Resolved(r) == [result |-> r, thrown |-> NoError]
Rejected(e) == [result |-> NoResult, thrown |-> e]

BroadAlone(q, u, f) ==
    IF FileIdMissing(f) THEN Resolved(RequiresFileResult)
    ELSE IF FindOne(f, u) = NoFile
         THEN Resolved(BroadErrorResult(<<"File not found for summarization.">>))
         ELSE LET found   == FindOne(f, u)
                  content == ParseFile(found.ext, DiskFor(found))
                  summary == SummarizeDocumentContent(
                                 aiEnabled, ProviderFor(SummaryPrompt(content, q)))
              IN  IF InsufficientContent(content)
                  THEN Resolved(InsufficientContentResult(found))
                  ELSE IF summary.ok THEN Resolved(SummaryResult(summary.value, found))
                       ELSE Resolved(BroadErrorResult(summary.error))

SpecificAlone(q, u, f) ==
    LET corrected == CorrectedQueryOf(
                         q, GenerateText(aiEnabled, ProviderFor(CorrectionPrompt(q))))
        found     == IndexFor([query |-> corrected, limit |-> SearchLimit,
                               filters |-> Filters(u, f)])
        answer    == GenerateText(
                         aiEnabled,
                         ProviderFor(BuildRagPrompt(corrected, Context(found),
                                                    ProfileFor(u))))
    IN  IF ~IsContextSufficient(found) THEN Resolved(FallbackResult(f))
        ELSE IF answer.ok THEN Resolved(RagResult(answer.value, found))
             ELSE Rejected(answer.error)

RouteAlone(q, u, f) ==
    LET analysis == DetermineQueryTypeOf(aiEnabled, ProviderFor(ClassifyPrompt(q)))
    IN  IF HandlerFor(analysis) = "broad" THEN BroadAlone(q, u, f)
        ELSE SpecificAlone(q, u, f)

NextConcurrent ==
    \/ \E q \in Queries, u \in Users, f \in FileIds \cup {Null} : ProcessQuery(q, u, f)
    \/ DetermineQueryType /\ (aiEnabled => llmOutcome' = ProviderFor(prompt'))
    \/ Route
    \/ BroadRequireFile
    \/ BroadFindFile /\ lastCall'.ok
    \/ BroadParseFile /\ fileContent' = ParseFile(file.ext, DiskFor(file))
    \/ BroadSummarize /\ (aiEnabled => llmOutcome' = ProviderFor(prompt'))
    \/ CorrectAndClarifyQuery /\ (aiEnabled => llmOutcome' = ProviderFor(prompt'))
    \/ SearchDocuments /\ lastCall'.ok /\ relevantChunks' = IndexFor(searchRequest')
    \/ ConfidenceGate
    \/ ReturnFallback
    \/ FindUser /\ lastCall'.ok /\ personalizationProfile' = ProfileFor(userId)
    \/ GenerateAnswer /\ (aiEnabled => llmOutcome' = ProviderFor(prompt'))
    \/ Return
    \/ Switch

SpecConcurrent == Init /\ [][NextConcurrent]_vars

\* ---------------------------------------------- documentProcessor.chunkText
routerVars == <<aiEnabled, pc, query, userId, fileId, queryAnalysis, handlers,
                correctedQuery, searchRequest, relevantChunks, file, fileContent,
                personalizationProfile, calls, prompt, llmOutcome, lastCall,
                caught, result, thrown, parked, running>>

\* No processQuery call is in flight
RouterIdle ==
    /\ aiEnabled = FALSE
    /\ pc = "idle"
    /\ query = <<>> /\ userId = Null /\ fileId = Null
    /\ queryAnalysis = NoAnalysis
    /\ handlers = <<>>
    /\ correctedQuery = <<>>
    /\ searchRequest = NoRequest
    /\ relevantChunks = <<>>
    /\ file = NoFile
    /\ fileContent = <<>>
    /\ personalizationProfile = <<>>
    /\ calls = <<>>
    /\ prompt = NoPrompt
    /\ llmOutcome = NoOutcome
    /\ lastCall = NoCall
    /\ caught = NoError
    /\ result = NoResult
    /\ thrown = NoError
    /\ parked = IdleLocals
    /\ running = 1

OutsideProcessor == UNCHANGED routerVars /\ UNCHANGED chatVars

OutsideChunker == OutsideProcessor /\ UNCHANGED ingestVars

Min(a, b) == IF a <= b THEN a ELSE b
Max(a, b) == IF a >= b THEN a ELSE b

\* A text is a sequence of characters; JavaScript offsets count from 0.
Chars == {"a", " ", "\n"}
IsWhite(c) == c \in {" ", "\n", "\t"}

\* A value that is not a string is held as a one-element tuple naming its type
NonStringValues == {<<"undefined">>, <<"object">>, <<"number">>}

\* typeof text === 'string'
IsString(t) == t \notin NonStringValues

\* String.prototype.slice(from, to): negative offsets count from the end
Slice(t, from, to) ==
    LET norm(k) == IF k < 0 THEN Max(Len(t) + k, 0) ELSE Min(k, Len(t))
    IN  SubSeq(t, norm(from) + 1, norm(to))

\* String.prototype.lastIndexOf(' '): -1 when there is no space
LastSpaceOf(t) ==
    IF \E i \in 1..Len(t) : t[i] = " "
    THEN (CHOOSE i \in 1..Len(t) : t[i] = " " /\ \A j \in (i + 1)..Len(t) : t[j] # " ") - 1
    ELSE -1

RECURSIVE TrimWhiteStart(_)
TrimWhiteStart(t) ==
    IF t = <<>> THEN <<>>
    ELSE IF IsWhite(Head(t)) THEN TrimWhiteStart(Tail(t)) ELSE t

RECURSIVE TrimWhiteEnd(_)
TrimWhiteEnd(t) ==
    IF t = <<>> THEN <<>>
    ELSE IF IsWhite(t[Len(t)]) THEN TrimWhiteEnd(SubSeq(t, 1, Len(t) - 1)) ELSE t

\* String.prototype.trim on a character text
TrimWhite(t) == TrimWhiteEnd(TrimWhiteStart(t))

\* The window of one iteration: text.slice(startIndex, endIndex), cut back to its
\* last space when it does not reach the end of the text
ChunkTextSlice(t, start, size) ==
    LET endIndex == Min(start + size, Len(t))
        window   == Slice(t, start, endIndex)
        lastSpace == LastSpaceOf(window)
    IN  IF endIndex < Len(t) /\ lastSpace > 0
        THEN SubSeq(window, 1, lastSpace)
        ELSE window

\* Mutation: the next window starts one character past the emitted slice
NextStartIndexPastEnd(start, sliceLength, overlap) ==
    start + sliceLength + 1

\* Mutation: the overlap is always subtracted, the forward-progress guard is gone
NextStartIndexNoGuard(start, sliceLength, overlap) ==
    start + sliceLength - overlap

\* The start of the next window
NextStartIndex(start, sliceLength, overlap) ==
    LET actualEndIndex == start + sliceLength
        next           == actualEndIndex - overlap
    IN  IF next <= actualEndIndex - sliceLength THEN actualEndIndex ELSE next

\* `${filename}_chunk_${chunkIndex}`
ChunkId(name, index) == <<name, "_chunk_", ToString(index)>>

\* `Source Document: "${filename}"\n\nContent: ${chunkTextSlice.trim()}`
ChunkWithContext(name, slice) ==
    <<"Source Document: \"", name, "\"\n\nContent: ">> \o TrimWhite(slice)

\* The object pushed for one window; start and slice are not fields of the
\* object, they record where the window was taken
ChunkOf(name, index, start, slice) ==
    [pageContent |-> ChunkWithContext(name, slice),
     metadata    |-> [source |-> name, chunkId |-> ChunkId(name, index)],
     start       |-> start,
     slice       |-> slice]

Filenames == {"a.pdf", "notes.txt"}

SmallTexts == UNION {[1..n -> Chars] : n \in 0..MaxTextLen}

\* Texts of 1000 characters: one word, and words of 9 letters
ScenarioTexts ==
    {[i \in 1..1000 |-> "a"],
     [i \in 1..1000 |-> IF i % 10 = 0 THEN " " ELSE "a"]}

ChunkerSettings ==
    {<<size, overlap>> : size \in 1..MaxChunkSize, overlap \in 0..MaxChunkOverlap}
      \cup {<<DefaultChunkSize, DefaultChunkOverlap>>}

InitChunk ==
    /\ RouterIdle
    /\ IngestIdle
    /\ ChatIdle
    /\ cpc = "idle"
    /\ text = <<>> /\ filename = Null
    /\ \E setting \in ChunkerSettings :
          chunkSize = setting[1] /\ chunkOverlap = setting[2]
    /\ startIndex = 0 /\ chunkIndex = 0
    /\ textChunks = <<>>

\* Mutation: only the empty string counts as blank
IsBlankEmptyOnly(t) == ~IsString(t) \/ t = <<>>

\* typeof text !== 'string' || !text.trim()
IsBlank(t) == ~IsString(t) \/ TrimWhite(t) = <<>>

\* Mutation: the ordinal counter is not started again at 0 by a new call
ChunkTextKeepOrdinal(t, name) ==
    /\ cpc = "idle"
    /\ text' = t /\ filename' = name
    /\ startIndex' = 0 /\ chunkIndex' = Len(t)
    /\ textChunks' = <<>>
    /\ cpc' = IF IsBlank(t) THEN "done" ELSE "loop"
    /\ UNCHANGED <<chunkSize, chunkOverlap>>
    /\ OutsideChunker

\* chunkText(text, filename): a text that is blank or not a string returns []
\* at once
ChunkText(t, name) ==
    /\ cpc = "idle"
    /\ text' = t /\ filename' = name
    /\ startIndex' = 0 /\ chunkIndex' = 0
    /\ textChunks' = <<>>
    /\ cpc' = IF IsBlank(t) THEN "done" ELSE "loop"
    /\ UNCHANGED <<chunkSize, chunkOverlap>>
    /\ OutsideChunker

\* Mutation: after a window cut back to a space the next one starts at the end
\* of the uncut window
ChunkLoopResumeAtWindowEnd ==
    /\ cpc = "loop"
    /\ startIndex < Len(text)
    /\ LET chunkTextSlice == ChunkTextSlice(text, startIndex, chunkSize)
           endIndex       == Min(startIndex + chunkSize, Len(text))
       IN  /\ textChunks' = Append(textChunks,
                                   ChunkOf(filename, chunkIndex, startIndex, chunkTextSlice))
           /\ startIndex' = IF startIndex + Len(chunkTextSlice) < endIndex
                             THEN endIndex
                             ELSE NextStartIndex(startIndex, Len(chunkTextSlice), chunkOverlap)
    /\ chunkIndex' = chunkIndex + 1
    /\ UNCHANGED <<cpc, text, filename, chunkSize, chunkOverlap>>
    /\ OutsideChunker

\* One iteration of while (startIndex < text.length)
ChunkLoop ==
    /\ cpc = "loop"
    /\ startIndex < Len(text)
    /\ LET chunkTextSlice == ChunkTextSlice(text, startIndex, chunkSize)
       IN  /\ textChunks' = Append(textChunks,
                                   ChunkOf(filename, chunkIndex, startIndex, chunkTextSlice))
           /\ startIndex' = NextStartIndex(startIndex, Len(chunkTextSlice), chunkOverlap)
    /\ chunkIndex' = chunkIndex + 1
    /\ UNCHANGED <<cpc, text, filename, chunkSize, chunkOverlap>>
    /\ OutsideChunker

\* The loop is left: return chunks.filter(chunk => chunk.pageContent.length > 0)
ChunkFilter ==
    /\ cpc = "loop"
    /\ ~(startIndex < Len(text))
    /\ textChunks' = SelectSeq(textChunks, LAMBDA c : Len(c.pageContent) > 0)
    /\ cpc' = "done"
    /\ UNCHANGED <<text, filename, chunkSize, chunkOverlap, startIndex, chunkIndex>>
    /\ OutsideChunker

\* The caller has taken the array
ChunkReturn ==
    /\ cpc = "done"
    /\ cpc' = "idle"
    /\ text' = <<>> /\ filename' = Null
    /\ startIndex' = 0 /\ chunkIndex' = 0
    /\ textChunks' = <<>>
    /\ UNCHANGED <<chunkSize, chunkOverlap>>
    /\ OutsideChunker

\* The texts handed to chunkText; the texts of 1000 characters go with the
\* configured size only
ChunkTextInputs ==
    SmallTexts \cup NonStringValues
      \cup (IF chunkSize = DefaultChunkSize THEN ScenarioTexts ELSE {})

\* The number of windows the loop takes from offset start on
RECURSIVE WindowsFrom(_, _, _, _)
WindowsFrom(t, start, size, overlap) ==
    IF start < Len(t)
    THEN 1 + WindowsFrom(t, NextStartIndex(start, Len(ChunkTextSlice(t, start, size)), overlap),
                         size, overlap)
    ELSE 0

\* The chunkId sequence chunkText returns for (text, filename), as a function
\* of its arguments and the configuration alone
ChunkIdsOf(t, name, size, overlap) ==
    IF IsBlank(t) THEN <<>>
    ELSE [i \in 1..WindowsFrom(t, 0, size, overlap) |-> ChunkId(name, i - 1)]

NextChunk ==
    \/ \E t \in ChunkTextInputs, name \in Filenames : ChunkText(t, name)
    \/ ChunkLoop
    \/ ChunkFilter
    \/ ChunkReturn

SpecChunk == InitChunk /\ [][NextChunk]_vars

\* -------------------------------------------- documentProcessor.processFile
\* The uploads handed to processFile: a path and the options of the upload
Uploads ==
    {[path |-> "a.pdf",     options |-> [originalName |-> "a.pdf",     userId |-> "u1", fileId |-> "f1"]],
     [path |-> "notes.txt", options |-> [originalName |-> "notes.txt", userId |-> "u2", fileId |-> "f2"]],
     [path |-> "pic.png",   options |-> [originalName |-> "pic.png",   userId |-> "u1", fileId |-> "f3"]],
     [path |-> Null,        options |-> [originalName |-> "a.pdf",     userId |-> "u1", fileId |-> "f1"]]}

\* path.extname(filePath).toLowerCase()
ExtOf(path) ==
    CASE path = "a.pdf"     -> ".pdf"
      [] path = "notes.txt" -> ".txt"
      [] OTHER              -> ".png"

\* path.extname throws for a path that is not a string, before the try block
ExtnameError == <<"TypeError: The \"path\" argument must be of type string">>

\* What parseFile can return for a path: '' for an unsupported extension, and
\* for a supported one the text read, '' when reading or extracting failed
ParsedTexts(path) ==
    IF ExtOf(path) \in {".txt", ".pdf"} THEN SmallTexts ELSE {<<>>}

IndexWriteErrors == {<<"vector store unavailable">>}

\* What vectorStore.addDocuments(documents) can do: reject, or resolve to a
\* count of documents the index accepted
IndexWriteOutcomes(documents) ==
    {[threw |-> TRUE, error |-> e, count |-> 0] : e \in IndexWriteErrors}
      \cup {[threw |-> FALSE, error |-> NoError, count |-> k] : k \in 0..Len(documents)}

NoReadableContentResult ==
    [success |-> TRUE, chunksAdded |-> 0, message |-> <<"File had no readable content.">>]

NoContentToChunkResult ==
    [success |-> TRUE, chunksAdded |-> 0, message |-> <<"File had no content to chunk.">>]

\* Mutation: the result reports the number of chunks built
StoredResultCountsBuilt(documents, outcome) ==
    [success |-> TRUE, chunksAdded |-> Len(documents)]

\* { success: true, chunksAdded: result.count }
StoredResult(documents, outcome) ==
    [success |-> TRUE, chunksAdded |-> outcome.count]

\* chunks.map(chunk => ({ pageContent, metadata: { ...chunk.metadata, userId,
\* fileId, fileName } }))
DocumentOf(chunk, opts) ==
    [pageContent |-> chunk.pageContent,
     metadata    |-> [source   |-> chunk.metadata.source,
                      chunkId  |-> chunk.metadata.chunkId,
                      userId   |-> opts.userId,
                      fileId   |-> opts.fileId,
                      fileName |-> opts.originalName]]

ChunkerReset ==
    /\ cpc' = "idle"
    /\ text' = <<>> /\ filename' = Null
    /\ startIndex' = 0 /\ chunkIndex' = 0
    /\ textChunks' = <<>>
    /\ UNCHANGED <<chunkSize, chunkOverlap>>

InitIngest ==
    /\ RouterIdle
    /\ IngestIdle
    /\ ChatIdle
    /\ cpc = "idle"
    /\ text = <<>> /\ filename = Null
    /\ \E setting \in ChunkerSettings :
          chunkSize = setting[1] /\ chunkOverlap = setting[2]
    /\ startIndex = 0 /\ chunkIndex = 0
    /\ textChunks = <<>>

\* processFile(filePath, options)
ProcessFile(upload) ==
    /\ ipc = "idle" /\ cpc = "idle"
    /\ ipc' = "parse"
    /\ filePath' = upload.path /\ options' = upload.options
    /\ parsedText' = <<>>
    /\ documentsToStore' = <<>>
    /\ storeCalls' = <<>>
    /\ ingestResult' = NoIngestResult
    /\ ingestThrown' = NoError
    /\ OutsideProcessor
    /\ UNCHANGED chunkerVars

\* const text = await this.parseFile(filePath); if (!text) return ...
IngestParse ==
    /\ ipc = "parse"
    /\ IF filePath = Null
       THEN /\ ingestThrown' = ExtnameError
            /\ ipc' = "done"
            /\ UNCHANGED <<parsedText, ingestResult>>
       ELSE \E t \in ParsedTexts(filePath) :
               /\ parsedText' = t
               /\ IF t = <<>>
                  THEN ingestResult' = NoReadableContentResult /\ ipc' = "done"
                  ELSE ipc' = "chunk" /\ UNCHANGED ingestResult
               /\ UNCHANGED ingestThrown
    /\ UNCHANGED <<filePath, options, documentsToStore, storeCalls>>
    /\ OutsideProcessor
    /\ UNCHANGED chunkerVars

\* const chunks = this.chunkText(text, options.originalName)
IngestChunk ==
    /\ ipc = "chunk"
    /\ ChunkText(parsedText, options.originalName)

\* chunkText has returned: if (chunks.length === 0) return ...; else the
\* chunks are mapped to the documents to store
IngestMap ==
    /\ ipc = "chunk" /\ cpc = "done"
    /\ IF Len(textChunks) = 0
       THEN /\ ingestResult' = NoContentToChunkResult
            /\ ipc' = "done"
            /\ UNCHANGED documentsToStore
       ELSE /\ documentsToStore' =
                  [i \in 1..Len(textChunks) |-> DocumentOf(textChunks[i], options)]
            /\ ipc' = "store"
            /\ UNCHANGED ingestResult
    /\ ChunkerReset
    /\ UNCHANGED <<filePath, options, parsedText, storeCalls, ingestThrown>>
    /\ OutsideProcessor

\* const result = await this.vectorStore.addDocuments(documentsToStore); a
\* rejection goes through the catch block, which throws it again
IngestStore ==
    /\ ipc = "store"
    /\ \E outcome \in IndexWriteOutcomes(documentsToStore) :
          /\ storeCalls' = Append(storeCalls,
                                  [documents |-> documentsToStore, outcome |-> outcome])
          /\ IF outcome.threw
             THEN ingestThrown' = outcome.error /\ UNCHANGED ingestResult
             ELSE /\ ingestResult' = StoredResult(documentsToStore, outcome)
                  /\ UNCHANGED ingestThrown
    /\ ipc' = "done"
    /\ UNCHANGED <<filePath, options, parsedText, documentsToStore>>
    /\ OutsideProcessor
    /\ UNCHANGED chunkerVars

\* The caller has taken the result or the error
IngestReturn ==
    /\ ipc = "done"
    /\ ipc' = "idle"
    /\ filePath' = Null /\ options' = NoOptions
    /\ parsedText' = <<>>
    /\ documentsToStore' = <<>>
    /\ storeCalls' = <<>>
    /\ ingestResult' = NoIngestResult
    /\ ingestThrown' = NoError
    /\ OutsideProcessor
    /\ UNCHANGED chunkerVars

\* chunkText called on its own, outside processFile
ChunkTextDirect ==
    /\ ipc = "idle"
    /\ \E t \in ChunkTextInputs, name \in Filenames : ChunkText(t, name)

ChunkReturnDirect ==
    /\ ipc = "idle"
    /\ ChunkReturn

NextIngest ==
    \/ \E upload \in Uploads : ProcessFile(upload)
    \/ IngestParse
    \/ IngestChunk
    \/ ChunkLoop
    \/ ChunkFilter
    \/ IngestMap
    \/ IngestStore
    \/ IngestReturn
    \/ ChunkTextDirect
    \/ ChunkReturnDirect

SpecIngest == InitIngest /\ [][NextIngest]_vars

\* ----------------------------------------------------------------- ChatPage
\* A message of the list: role, text, type (assistant messages of the deep
\* search and RAG branches carry one) and the timestamp it was created with
Message(role, txt, type, at) == [role |-> role, text |-> txt, type |-> type, at |-> at]

\* The sessions of the history sidebar and what getSessionDetails resolves to
SessionIds == {"s1", "s2"}

SessionMessages(s) ==
    IF s = "s1"
    THEN <<Message("user", <<"q1">>, "none", 0), Message("assistant", <<"r1">>, "none", 0)>>
    ELSE <<Message("user", <<"q2">>, "none", 0), Message("assistant", <<"r2">>, "none", 0),
           Message("user", <<"q3">>, "none", 0)>>

\* getSessionDetails: rejects, resolves without messages, or resolves to the
\* stored session
LoadOutcomes == {"rejected", "no messages", "session"}

\* What the user has typed when the form is submitted
InputTexts == {<<"h", "i">>, <<" ", "h", "i", " ">>, <<" ">>, <<>>}

\* searchType of a reply of the RAG endpoint
ReplyTypes == {"rag", "summary", "rag_fallback"}

\* const isProcessing = Object.values(loadingStates).some(Boolean)
IsProcessing == loadingStates.chat \/ loadingStates.deepSearch

\* The branch handleSendMessage takes
SendMode ==
    IF isDeepSearchEnabled THEN "deepSearch"
    ELSE IF activeFileForRag # Null THEN "rag"
    ELSE "chat"

LoadingFlag(mode) == IF mode = "deepSearch" THEN "deepSearch" ELSE "chat"

\* The text of setError in the catch block of each branch
SendErrorText(mode) ==
    CASE mode = "deepSearch" -> "Deep Search Error: Deep search failed."
      [] mode = "rag"        -> "RAG Error: RAG query failed."
      [] OTHER               -> "Chat error."

\* prev.slice(0, -1)
DropLast(list) == SubSeq(list, 1, Len(list) - 1)

InitChat ==
    /\ RouterIdle
    /\ ChunkerIdle
    /\ IngestIdle
    /\ messages = <<>>
    /\ loadingStates = [chat |-> FALSE, deepSearch |-> FALSE]
    /\ chatError = ""
    /\ sidebarView = "files"
    /\ sessionId = "s0"
    /\ activeFileForRag \in {Null, "f1"}
    /\ isDeepSearchEnabled \in BOOLEAN
    /\ ragSourceInfo = Null
    /\ sendRequest = NoSend
    /\ loadRequests = {}
    /\ clock = 0

OutsideChat ==
    /\ UNCHANGED routerVars
    /\ UNCHANGED chunkerVars
    /\ UNCHANGED ingestVars

\* The Chat History button, disabled while isProcessing
ShowHistory ==
    /\ ~IsProcessing
    /\ sidebarView' = "history"
    /\ UNCHANGED <<messages, loadingStates, chatError, sessionId, activeFileForRag,
                   isDeepSearchEnabled, ragSourceInfo, sendRequest, loadRequests, clock>>
    /\ OutsideChat

\* The My Files button
ShowFiles ==
    /\ sidebarView' = "files"
    /\ UNCHANGED <<messages, loadingStates, chatError, sessionId, activeFileForRag,
                   isDeepSearchEnabled, ragSourceInfo, sendRequest, loadRequests, clock>>
    /\ OutsideChat

\* handleSendMessage up to its await: the user message is appended and the
\* request is sent; a blank input or a page that is processing returns at once
HandleSendMessage(inputText) ==
    /\ TrimWhite(inputText) # <<>>
    /\ ~IsProcessing
    /\ clock + 2 <= MaxTimestamps
    /\ LET newUserMessage == Message("user", TrimWhite(inputText), "none", clock + 1)
       IN  /\ messages' = Append(messages, newUserMessage)
           /\ sendRequest' = [status |-> "pending", mode |-> SendMode,
                              userMessage |-> newUserMessage]
    /\ clock' = clock + 1
    /\ chatError' = ""
    /\ ragSourceInfo' = Null
    /\ loadingStates' = [loadingStates EXCEPT ![LoadingFlag(SendMode)] = TRUE]
    /\ UNCHANGED <<sidebarView, sessionId, activeFileForRag, isDeepSearchEnabled,
                   loadRequests>>
    /\ OutsideChat

\* The awaited request resolves: the try block appends the assistant message,
\* the finally block clears the loading flag
SendResolved ==
    /\ sendRequest.status = "pending"
    /\ \E type \in (IF sendRequest.mode = "rag" THEN ReplyTypes
                    ELSE IF sendRequest.mode = "deepSearch" THEN {"deep_search"}
                    ELSE {"none"}) :
          /\ messages' = Append(messages, Message("assistant", <<"reply">>, type, clock + 1))
          /\ ragSourceInfo' = IF type \in {"rag", "summary"} THEN type ELSE ragSourceInfo
    /\ clock' = clock + 1
    /\ loadingStates' = [loadingStates EXCEPT ![LoadingFlag(sendRequest.mode)] = FALSE]
    /\ sendRequest' = [sendRequest EXCEPT !.status = "resolved"]
    /\ UNCHANGED <<chatError, sidebarView, sessionId, activeFileForRag,
                   isDeepSearchEnabled, loadRequests>>
    /\ OutsideChat

\* The awaited request rejects: the catch block sets the error and drops the
\* last message of the list, the finally block clears the loading flag
SendRejected ==
    /\ sendRequest.status = "pending"
    /\ chatError' = SendErrorText(sendRequest.mode)
    /\ messages' = DropLast(messages)
    /\ loadingStates' = [loadingStates EXCEPT ![LoadingFlag(sendRequest.mode)] = FALSE]
    /\ sendRequest' = [sendRequest EXCEPT !.status = "rejected"]
    /\ UNCHANGED <<sidebarView, sessionId, activeFileForRag, isDeepSearchEnabled,
                   ragSourceInfo, loadRequests, clock>>
    /\ OutsideChat

\* handleLoadSession up to its await; the history widget is rendered only in
\* the history view and is given no isProcessing
HandleLoadSession(s) ==
    /\ sidebarView = "history"
    /\ loadRequests' = loadRequests \cup {s}
    /\ UNCHANGED <<messages, loadingStates, chatError, sidebarView, sessionId,
                   activeFileForRag, isDeepSearchEnabled, ragSourceInfo, sendRequest,
                   clock>>
    /\ OutsideChat

\* getSessionDetails settles and handleLoadSession runs to its end
LoadSettled(s) ==
    /\ s \in loadRequests
    /\ loadRequests' = loadRequests \ {s}
    /\ \E outcome \in LoadOutcomes :
          CASE outcome = "session" ->
                  /\ messages' = SessionMessages(s)
                  /\ sessionId' = s
                  /\ activeFileForRag' = Null
                  /\ ragSourceInfo' = Null
                  /\ sidebarView' = "files"
                  /\ UNCHANGED chatError
            [] outcome = "rejected" ->
                  /\ chatError' = "Failed to load session."
                  /\ UNCHANGED <<messages, sessionId, activeFileForRag, ragSourceInfo,
                                 sidebarView>>
            [] OTHER ->
                  UNCHANGED <<messages, sessionId, activeFileForRag, ragSourceInfo,
                              sidebarView, chatError>>
    /\ UNCHANGED <<loadingStates, isDeepSearchEnabled, sendRequest, clock>>
    /\ OutsideChat

NextChat ==
    \/ ShowHistory
    \/ ShowFiles
    \/ \E inputText \in InputTexts : HandleSendMessage(inputText)
    \/ SendResolved
    \/ SendRejected
    \/ \E s \in SessionIds : HandleLoadSession(s)
    \/ \E s \in SessionIds : LoadSettled(s)

SpecChat == InitChat /\ [][NextChat]_vars

\* ------------------------------------------------------------------- claims
Done          == pc = "done"
OnSpecific    == handlers = <<"specific">>
OnBroad       == handlers = <<"broad">>
Returned      == result # NoResult
TopScore      == relevantChunks[1].score
LastLogged    == IF calls = <<>> THEN "none" ELSE calls[Len(calls)]

\* C1: the specific path takes the answer-from-context branch, and any result it
\* returns is 'rag', exactly when the retriever's list is non-empty and its first
\* score is strictly above 0.65; otherwise it takes the fallback branch and the
\* result is 'rag_fallback'.  Only the first chunk's score enters the decision.
C1_ConfidenceGate ==
    LET sufficient == /\ Len(relevantChunks) > 0
                      /\ relevantChunks[1].score > 6500
    IN  /\ pc \in {"s_user", "s_generate"} => sufficient
        /\ pc = "s_fallback" => ~sufficient
        /\ (Done /\ OnSpecific /\ Returned) =>
              /\ result.searchType = "rag" <=> sufficient
              /\ result.searchType = "rag_fallback" <=> ~sufficient
        /\ (Done /\ OnSpecific /\ lastCall.call \in {"User.findById", "generateText"})
              => sufficient

C1_Witness ==
    /\ Done /\ result.searchType = "rag_fallback"
    /\ Len(relevantChunks) = 2
    /\ relevantChunks[1].score = 6500
    /\ relevantChunks[2].score > 6500

\* C2: every run of processQuery invokes exactly one handler: the broad handler
\* when the classifier's type is 'broad', the specific handler otherwise; the
\* collaborators of the other handler are never called.
C2_RoutingDeterminism ==
    /\ pc \in {"idle", "classify", "route"} => handlers = <<>>
    /\ pc \notin {"idle", "classify", "route"} =>
          /\ Len(handlers) = 1
          /\ handlers[1] = "broad" <=> queryAnalysis.type = "broad"
          /\ handlers[1] = "specific" <=> queryAnalysis.type # "broad"
    /\ pc \in {"broad", "b_find", "b_parse", "b_summarize"} => OnBroad
    /\ pc \in {"specific", "s_search", "s_gate", "s_fallback", "s_user", "s_generate"}
          => OnSpecific
    /\ OnBroad => \A c \in {"generateText", "searchDocuments", "User.findById"} :
                     Count(calls, c) = 0
    /\ OnSpecific => \A c \in {"File.findOne", "parseFile", "summarizeDocumentContent"} :
                     Count(calls, c) = 0

C2_Witness ==
    Done /\ OnSpecific /\ queryAnalysis.type = "overview" /\ Returned

\* C3 (as stated): with a top chunk score of 0.9 the result is 'rag' and the LLM
\* was invoked exactly once while the query was handled.
C3_OneLLMCall ==
    (Done /\ Returned /\ Len(relevantChunks) > 0 /\ TopScore = 9000) =>
        /\ result.searchType = "rag"
        /\ Count(calls, "generateContent") = 1

\* C3 (amended): with a top chunk score of 0.9 a returned result is 'rag', and
\* the LLM was invoked exactly three times: once by the classifier, once by the
\* corrector and once, last, for the answer.
C3_ThreeLLMCalls ==
    (Done /\ Returned /\ Len(relevantChunks) > 0 /\ TopScore = 9000) =>
        /\ result.searchType = "rag"
        /\ Count(calls, "generateContent") = 3
        /\ Count(calls, "determineQueryType") = 1
        /\ Count(calls, "generateText") = 2
        /\ prompt.kind = "rag"
        /\ prompt.query = correctedQuery

C3_Witness ==
    /\ Done /\ result.searchType = "rag"
    /\ TopScore = 9000
    /\ Count(calls, "generateContent") = 3

\* C4: once the gate has found the context insufficient, nothing more is called:
\* the search is the last collaborator call before the 'rag_fallback' result, no
\* user is looked up and no answer prompt reaches the LLM.
C4_FallbackMakesNoCall ==
    (pc = "s_fallback" \/ (Done /\ result.searchType = "rag_fallback")) =>
        /\ LastLogged = "searchDocuments"
        /\ Count(calls, "User.findById") = 0
        /\ Count(calls, "generateText") = 1
        /\ prompt.kind # "rag"
        /\ thrown = NoError

C4_Witness ==
    /\ Done /\ result.searchType = "rag_fallback"
    /\ aiEnabled
    /\ Len(relevantChunks) > 0

\* C5: a run on the specific path ends with a result or with an error, never
\* both; a failed search, user lookup or answer generation ends it with the
\* error and no result; the only results are 'rag' and 'rag_fallback'.
C5_SpecificFailuresPropagate ==
    (Done /\ OnSpecific) =>
        /\ Returned <=> thrown = NoError
        /\ (~lastCall.ok) => (thrown # NoError /\ ~Returned)
        /\ Returned => result.searchType \in {"rag", "rag_fallback"}
        /\ caught = NoError

C5_Witness ==
    /\ Done /\ OnSpecific
    /\ lastCall = [call |-> "generateText", ok |-> FALSE]
    /\ thrown # NoError /\ ~Returned

\* C6: the error that reaches the caller when the provider blocked the answer
\* differs from every error that reaches it when the provider call failed or
\* the AI service is unavailable.
C6_BlockedIsDistinct ==
    (/\ Done /\ OnSpecific /\ aiEnabled
     /\ lastCall = [call |-> "generateText", ok |-> FALSE]
     /\ ~llmOutcome.threw
     /\ llmOutcome.response \in BlockedResponses)
    => /\ \A o \in LLMOutcomes : o.threw => thrown # GenerateText(TRUE, o).error
       /\ thrown # GenerateText(FALSE, NoOutcome).error

\* C7: the broad path never throws; every exception raised while resolving,
\* parsing or summarizing (file not found included) ends the run with the
\* 'summary_error' result, the fixed apology and no sources, and nothing of the
\* error's text is in the result.
C7_BroadNeverThrows ==
    OnBroad =>
        /\ thrown = NoError
        /\ Done => Returned
        /\ caught # NoError =>
              /\ Done
              /\ result.searchType = "summary_error"
              /\ result.message = BroadApology
              /\ result.sources = <<>>
              /\ \A i \in 1..Len(result.message), j \in 1..Len(caught) :
                    result.message[i] # caught[j]
        /\ (Done /\ ~lastCall.ok) => caught # NoError
        /\ (Done /\ LastLogged = "File.findOne" /\ file = NoFile) => caught # NoError

C7_Witness ==
    /\ Done /\ OnBroad
    /\ caught = <<"File not found for summarization.">>
    /\ result.searchType = "summary_error"

\* C8: a broad query without a fileId ends with 'summary_requires_file' and no
\* sources, and no file is looked up, no document parsed, no summary asked for.
C8_BroadRequiresFile ==
    /\ (Done /\ OnBroad /\ fileId = Null) =>
          /\ result.searchType = "summary_requires_file"
          /\ result.sources = <<>>
          /\ \A c \in {"File.findOne", "parseFile", "summarizeDocumentContent"} :
                Count(calls, c) = 0
    /\ pc \in {"b_find", "b_parse", "b_summarize"} => fileId # Null

C8_Witness ==
    Done /\ OnBroad /\ fileId = Null /\ result.searchType = "summary_requires_file"

\* C9: after parsing, a text that is empty or whose trimmed length is below 100
\* ends the run with 'summary_insufficient_content' and no summarizer call; a
\* trimmed length of 100 or more leads to exactly one summarizer call.
C9_ContentThreshold ==
    (pc \in {"b_summarize", "done"} /\ Count(calls, "parseFile") = 1) =>
        LET trimmed == RunsLength(RunsTrim(fileContent))
        IN  /\ trimmed < 100 =>
                  /\ Done
                  /\ result.searchType = "summary_insufficient_content"
                  /\ Count(calls, "summarizeDocumentContent") = 0
            /\ trimmed >= 100 =>
                  /\ result.searchType # "summary_insufficient_content"
                  /\ Done => Count(calls, "summarizeDocumentContent") = 1

C9_Witness ==
    /\ Done /\ result.searchType = "summary_insufficient_content"
    /\ RunsLength(fileContent) >= 100

\* C10: when resolution, parsing and summarization succeed the result is
\* 'summary' with the single source naming the resolved document; the summarizer
\* got the original query and a prompt holding the first 10,000 characters of
\* the text at most.
C10_BroadSuccess ==
    /\ (Done /\ OnBroad /\ lastCall = [call |-> "summarizeDocumentContent", ok |-> TRUE])
          => result.searchType = "summary"
    /\ (Done /\ result.searchType = "summary") =>
          /\ file # NoFile /\ file.id = fileId /\ file.user = userId
          /\ result.sources = <<[title |-> file.originalname, type |-> "document"]>>
          /\ correctedQuery = <<>>
          /\ aiEnabled =>
                /\ prompt.kind = "summarize"
                /\ prompt.query = query
                /\ RunsLength(prompt.content) <= 10000
                /\ RunsLength(prompt.content) <= RunsLength(fileContent)
                /\ prompt.content = RunsSubstring(fileContent, RunsLength(prompt.content))
                /\ result.message = llmOutcome.response.text

C10_Witness ==
    /\ Done /\ result.searchType = "summary"
    /\ RunsLength(fileContent) > 10000
    /\ RunsLength(prompt.content) = 10000

\* The provider gave no usable text for the call made last: it rejected, or the
\* response has no candidate, another finish reason than STOP/MAX_TOKENS, or no text
LLMCallFailed ==
    \/ llmOutcome.threw
    \/ ~llmOutcome.response.hasCandidate
    \/ llmOutcome.response.finishReason \notin {"STOP", "MAX_TOKENS"}
    \/ ~llmOutcome.response.hasText

\* The text of the last response holds no JSON object that parses
NoParseableJson ==
    LET responseText == llmOutcome.response.text
    IN  \/ \A i \in 1..Len(responseText) : responseText[i] # "{"
        \/ \A i \in 1..Len(responseText) : responseText[i] # "}"
        \/ ~JsonValid(JsonMatch(responseText))

\* C11: determineQueryType never throws, and with the AI disabled, a failed LLM
\* call or response, or a text without a parseable JSON object, the analysis has
\* type 'specific' and the router takes the specific path.
C11_ClassifierDefaultsToSpecific ==
    pc \in {"route", "specific", "broad"} =>
        /\ thrown = NoError
        /\ queryAnalysis # NoAnalysis
        /\ (~aiEnabled \/ LLMCallFailed \/ NoParseableJson) =>
              /\ queryAnalysis.type = "specific"
              /\ pc # "broad"

C11_Witness ==
    /\ pc = "specific" /\ aiEnabled
    /\ ~LLMCallFailed
    /\ llmOutcome.response.text = T_badjson
    /\ queryAnalysis.type = "specific"

\* C12: every analysis the classifier returns has a type that is exactly
\* 'specific' or 'broad'.
C12_TypeIsSpecificOrBroad ==
    queryAnalysis # NoAnalysis => queryAnalysis.type \in {"specific", "broad"}

\* C13: when the correction call fails (AI disabled included) the corrector
\* returns the original query without throwing, and the search is made with it.
C13_CorrectorFallsBack ==
    (/\ OnSpecific
     /\ pc \in {"s_search", "s_gate"} \/ (Done /\ lastCall.call = "searchDocuments")
     /\ ~aiEnabled \/ LLMCallFailed) =>
        /\ correctedQuery = query
        /\ pc = "s_search" => thrown = NoError
        /\ pc # "s_search" => searchRequest.query = query

C13_Witness ==
    /\ pc = "s_gate" /\ aiEnabled /\ LLMCallFailed
    /\ query = <<"summarise", " ", "this">>
    /\ searchRequest.query = query

\* C14: the search request carries the caller's userId, carries fileId exactly
\* when one was given, and asks for at most 5 chunks; the broad path resolves
\* the document by (fileId, userId), so another user's fileId ends in
\* 'summary_error' and nothing of that document is parsed, named or summarized.
C14_OwnerScoping ==
    /\ searchRequest # NoRequest =>
          /\ searchRequest.filters.userId = userId
          /\ fileId # Null => /\ DOMAIN searchRequest.filters = {"userId", "fileId"}
                              /\ searchRequest.filters.fileId = fileId
          /\ fileId = Null => DOMAIN searchRequest.filters = {"userId"}
          /\ searchRequest.limit <= 5
    /\ file # NoFile => (file.id = fileId /\ file.user = userId)
    /\ (Done /\ OnBroad /\ \E f \in Files : f.id = fileId /\ f.user # userId) =>
          /\ result.searchType = "summary_error"
          /\ result.sources = <<>>
          /\ Count(calls, "parseFile") = 0
          /\ Count(calls, "summarizeDocumentContent") = 0

C14_Witness ==
    /\ Done /\ OnBroad
    /\ fileId = "f2" /\ userId = "u1"
    /\ result.searchType = "summary_error"

\* C16: a 'rag_fallback' result has no sources; its message names 'the selected
\* document' exactly when a fileId was given and 'your uploaded documents'
\* exactly when none was, for an empty chunk list and for a low top score alike.
C16_FallbackWording ==
    (Done /\ result.searchType = "rag_fallback") =>
        LET mentions(phrase) == \E i \in 1..Len(result.message) : result.message[i] = phrase
        IN  /\ result.sources = <<>>
            /\ mentions("the selected document") <=> fileId # Null
            /\ mentions("your uploaded documents") <=> fileId = Null

C16_Witness ==
    /\ Done /\ result.searchType = "rag_fallback"
    /\ fileId # Null
    /\ relevantChunks # <<>>
    /\ \E i \in 1..Len(result.message) : result.message[i] = "the selected document"

\* The file name a chunk is listed under
ListedName(chunk) == IF chunk.fileName # "" THEN chunk.fileName ELSE "Unknown Document"

FirstSeen(name) ==
    CHOOSE i \in 1..Len(relevantChunks) :
        /\ ListedName(relevantChunks[i]) = name
        /\ \A j \in 1..(i - 1) : ListedName(relevantChunks[j]) # name

\* C15: on a 'rag' result sources holds one {title, type: 'document'} entry per
\* distinct file name of the retrieved chunks, ordered by first appearance, so
\* it is never longer than the chunk list; source_count is the number of chunks.
C15_SourceDedup ==
    (Done /\ result.searchType = "rag") =>
        LET names == {ListedName(relevantChunks[i]) : i \in 1..Len(relevantChunks)}
            src   == result.sources
        IN  /\ {src[i].title : i \in 1..Len(src)} = names
            /\ Len(src) = Cardinality(names)
            /\ Len(src) <= Len(relevantChunks)
            /\ \A i \in 1..Len(src) : src[i].type = "document"
            /\ \A i, j \in 1..Len(src) :
                  i < j => FirstSeen(src[i].title) < FirstSeen(src[j].title)
            /\ result.source_count = Len(relevantChunks)

C15_Witness ==
    /\ Done /\ result.searchType = "rag"
    /\ Len(relevantChunks) = 5
    /\ {relevantChunks[i].fileName : i \in 1..5} = {"a.pdf", "notes.txt"}
    /\ relevantChunks[1].fileName = "notes.txt"
    /\ Len(result.sources) = 2
    /\ result.sources[1].title = "notes.txt"
    /\ result.source_count = 5

\* C17: whatever the interleaving of two processQuery calls, each call ends with
\* the result (or error) that its own arguments give when it runs alone against
\* collaborators that answer by the content of the request.
C17_NoStateAcrossQueries ==
    /\ Done => [result |-> result, thrown |-> thrown] = RouteAlone(query, userId, fileId)
    /\ parked.pc = "done" =>
          [result |-> parked.result, thrown |-> parked.thrown]
             = RouteAlone(parked.query, parked.userId, parked.fileId)

C17_Witness ==
    /\ Done /\ result.searchType = "rag"
    /\ parked.pc = "s_gate"
    /\ parked.relevantChunks # relevantChunks
    /\ ~IsContextSufficient(parked.relevantChunks)

\* C18: every iteration of the chunkText loop moves the start offset strictly
\* forward and never past the end of the text, whatever the chunk size (>= 1)
\* and the overlap (>= 0, also >= size); so the loop runs at most text.length
\* times and chunkText terminates.
C18_ChunkerProgress ==
    [][(cpc = "loop" /\ cpc' = "loop") =>
          /\ startIndex' > startIndex
          /\ startIndex' <= Len(text)
          /\ chunkIndex' = chunkIndex + 1
          /\ chunkIndex' <= startIndex']_vars

C18_Witness ==
    /\ cpc = "loop"
    /\ chunkOverlap >= chunkSize
    /\ chunkIndex = 2
    /\ startIndex < Len(text)

\* C19: a text that is not blank and shorter than the chunk size yields exactly
\* one chunk.
C19_ShortTextOneChunk ==
    (cpc = "done" /\ ~IsBlank(text) /\ Len(text) < chunkSize) =>
        Len(textChunks) = 1

\* C20: a text of 1000 characters with size 512 and overlap 100 yields 3 chunks
\* of at most 512 characters each, the one with ordinal 2 starting at or before
\* offset 824.
C20_ThousandCharScenario ==
    (cpc = "done" /\ Len(text) = 1000 /\ chunkSize = 512 /\ chunkOverlap = 100) =>
        /\ Len(textChunks) = 3
        /\ \A i \in 1..Len(textChunks) : Len(textChunks[i].slice) <= 512
        /\ textChunks[3].start <= 824

\* The chunkId sequence of the array chunkText has returned
ReturnedIds == [i \in 1..Len(textChunks) |-> textChunks[i].metadata.chunkId]

\* C21: in the array chunkText returns, the chunk at position i (from 0) has
\* chunkId <filename>_chunk_<i>, so ordinals run 0, 1, 2, ... without gap or
\* repeat; and the chunkId sequence is the function ChunkIdsOf of (text,
\* filename) and the configuration, so chunking the same pair again gives the
\* same sequence.
C21_ChunkIds ==
    cpc = "done" =>
        /\ \A i \in 1..Len(textChunks) :
              ReturnedIds[i] = <<filename, "_chunk_", ToString(i - 1)>>
        /\ \A i, j \in 1..Len(textChunks) : i # j => ReturnedIds[i] # ReturnedIds[j]
        /\ ReturnedIds = ChunkIdsOf(text, filename, chunkSize, chunkOverlap)

C21_Witness ==
    /\ cpc = "done"
    /\ Len(textChunks) >= 3
    /\ ReturnedIds[3] = <<"notes.txt", "_chunk_", "2">>

\* The window the loop took at offset start, before any cut: its end, its
\* characters, and the chunk last pushed
WindowEnd(start) == Min(start + chunkSize, Len(text))
Window(start) == Slice(text, start, WindowEnd(start))
LastChunk == textChunks[Len(textChunks)]
SpanEnd(c) == c.start + Len(c.slice)
WasCut(c) == SpanEnd(c) < WindowEnd(c.start)

\* C25 as stated: the next window starts at the window end minus the overlap,
\* and at the end of the uncut window when the window was cut back to a word
\* boundary.
C25_NextWindowStart ==
    (cpc = "loop" /\ textChunks # <<>>) =>
        startIndex = IF WasCut(LastChunk)
                     THEN WindowEnd(LastChunk.start)
                     ELSE WindowEnd(LastChunk.start) - chunkOverlap

\* C25, amended: the next window starts at the end of the emitted slice (the
\* window end after the cut to a word boundary) minus the overlap, except that
\* when this is not beyond the start of the emitted window, the next window
\* starts exactly at the end of the emitted slice.
C25_NextWindowStartAmended ==
    (cpc = "loop" /\ textChunks # <<>>) =>
        startIndex = IF SpanEnd(LastChunk) - chunkOverlap > LastChunk.start
                     THEN SpanEnd(LastChunk) - chunkOverlap
                     ELSE SpanEnd(LastChunk)

C25_Witness ==
    /\ cpc = "loop" /\ textChunks # <<>>
    /\ WasCut(LastChunk)
    /\ chunkOverlap > 0
    /\ startIndex = SpanEnd(LastChunk) - chunkOverlap
    /\ startIndex < WindowEnd(LastChunk.start)

\* C26: for a text that is not blank, the spans [start, start + slice length)
\* of the returned chunks begin at 0, end at the text length, and each span
\* starts at or before the end of the one before, so every offset is covered.
C26_ChunkCoverage ==
    (cpc = "done" /\ ~IsBlank(text)) =>
        /\ textChunks # <<>>
        /\ textChunks[1].start = 0
        /\ SpanEnd(LastChunk) = Len(text)
        /\ \A i \in 1..(Len(textChunks) - 1) :
              /\ textChunks[i + 1].start <= SpanEnd(textChunks[i])
              /\ textChunks[i + 1].start > textChunks[i].start
        /\ \A k \in 0..(Len(text) - 1) :
              \E i \in 1..Len(textChunks) :
                 textChunks[i].start <= k /\ k < SpanEnd(textChunks[i])

C26_Witness ==
    /\ cpc = "done" /\ ~IsBlank(text)
    /\ Len(textChunks) >= 2
    /\ \E i \in 1..Len(textChunks) : WasCut(textChunks[i])
    /\ chunkOverlap = 0

\* The offset in a window of its last whitespace character, -1 when it has none
LastWhiteOf(w) ==
    IF \E i \in 1..Len(w) : IsWhite(w[i])
    THEN (CHOOSE i \in 1..Len(w) : IsWhite(w[i]) /\ \A j \in (i + 1)..Len(w) : ~IsWhite(w[j])) - 1
    ELSE -1

\* C27: a window that does not reach the end of the text and holds a whitespace
\* character is emitted cut at its last whitespace; the hard cut at the window
\* end is kept only for a window without whitespace.
C27_WordSafeTruncation ==
    \A i \in 1..Len(textChunks) :
       LET c == textChunks[i]
           w == Window(c.start)
       IN  WindowEnd(c.start) < Len(text) =>
              c.slice = IF LastWhiteOf(w) >= 0 THEN SubSeq(w, 1, LastWhiteOf(w)) ELSE w

\* C28: for a text that is not blank, the slice of every returned chunk is not
\* empty after trimming, so no chunk is the header alone.
C28_ChunkTextNeverEmpty ==
    (cpc = "done" /\ ~IsBlank(text)) =>
        \A i \in 1..Len(textChunks) : TrimWhite(textChunks[i].slice) # <<>>

IngestDone == ipc = "done"

\* C22: chunkText returns the empty array for a text that is empty, made of
\* whitespace only or not a string; and processFile on a file whose extracted
\* text is empty or whitespace-only returns success with chunksAdded 0 and has
\* not called vectorStore.addDocuments.
C22_EmptyInputIsSoft ==
    /\ (cpc = "done" /\ (~IsString(text) \/ TrimWhite(text) = <<>>)) => textChunks = <<>>
    /\ (IngestDone /\ ingestThrown = NoError /\ TrimWhite(parsedText) = <<>>) =>
          /\ ingestResult.success
          /\ ingestResult.chunksAdded = 0
          /\ storeCalls = <<>>
    /\ (ipc = "store" /\ filePath # Null) => TrimWhite(parsedText) # <<>>

C22_Witness ==
    /\ IngestDone
    /\ parsedText # <<>> /\ TrimWhite(parsedText) = <<>>
    /\ ingestResult = NoContentToChunkResult

\* C23: a success result of processFile that follows an index write reports as
\* chunksAdded the count the write returned, whatever the number of documents
\* built; and when the write rejects, processFile throws that error and returns
\* no result.
C23_ResultReflectsIndex ==
    (IngestDone /\ storeCalls # <<>>) =>
        LET write == storeCalls[Len(storeCalls)]
        IN  /\ Len(storeCalls) = 1
            /\ write.documents = documentsToStore
            /\ IF write.outcome.threw
               THEN ingestThrown = write.outcome.error /\ ingestResult = NoIngestResult
               ELSE /\ ingestThrown = NoError
                    /\ ingestResult.success
                    /\ ingestResult.chunksAdded = write.outcome.count

C23_Witness ==
    /\ IngestDone /\ storeCalls # <<>>
    /\ ~storeCalls[1].outcome.threw
    /\ ingestResult.chunksAdded < Len(documentsToStore)

\* The position in the call log of the first call with this name, 0 if none
FirstCall(name) ==
    IF \E i \in 1..Len(calls) : calls[i] = name
    THEN CHOOSE i \in 1..Len(calls) : calls[i] = name /\ \A j \in 1..(i - 1) : calls[j] # name
    ELSE 0

Classified == pc \notin {"idle", "classify"}

\* C24 as stated: the corrector runs on every routed query and before the
\* classifier, which is invoked on the corrector's output.
C24_CorrectionBeforeClassification ==
    Classified =>
        /\ FirstCall("generateText") > 0
        /\ FirstCall("generateText") < FirstCall("determineQueryType")
        /\ (aiEnabled /\ pc = "route") => prompt = ClassifyPrompt(correctedQuery)

\* C24, amended: the classifier is the first call of every run and is invoked
\* on the raw query; the corrector runs after it, on the specific path only
\* and as that path's first step, and its output is what the retriever is
\* asked; the broad path never runs the corrector.
C24_ClassificationBeforeCorrection ==
    /\ Classified =>
          /\ FirstCall("determineQueryType") = 1
          /\ FirstCall("generateText") = 0
                \/ FirstCall("generateText") > FirstCall("determineQueryType")
          /\ (aiEnabled /\ pc = "route") => prompt = ClassifyPrompt(query)
    /\ pc \in {"route", "specific"} => (FirstCall("generateText") = 0 /\ correctedQuery = <<>>)
    /\ OnBroad => (FirstCall("generateText") = 0 /\ correctedQuery = <<>>)
    /\ (OnSpecific /\ pc # "specific") =>
          /\ FirstCall("generateText") = (IF aiEnabled THEN 3 ELSE 2)
          /\ FirstCall("searchDocuments") \in {0, FirstCall("generateText") + (IF aiEnabled THEN 2 ELSE 1)}
          /\ searchRequest # NoRequest => searchRequest.query = correctedQuery

C24_Witness ==
    /\ pc = "s_gate" /\ aiEnabled
    /\ correctedQuery # query
    /\ calls = <<"determineQueryType", "generateContent", "generateText",
                 "generateContent", "searchDocuments">>

\* The error generateText throws without a model
GenerationUnavailable == GenerateText(FALSE, NoOutcome).error

\* C29 as stated: with the AI service disabled a run never takes the broad path
\* and never returns 'rag' or 'summary'; the analysis is 'specific', the
\* corrected query is the original one, and the run ends either with
\* 'rag_fallback' (gate not passed) or with the generation error (gate passed).
C29_DisabledEndsInFallbackOrError ==
    ~aiEnabled =>
        /\ ~OnBroad
        /\ result.searchType \notin {"rag", "summary"}
        /\ Classified => queryAnalysis.type = "specific"
        /\ (OnSpecific /\ pc # "specific") => correctedQuery = query
        /\ Done =>
              \/ /\ result.searchType = "rag_fallback" /\ thrown = NoError
                 /\ ~IsContextSufficient(relevantChunks)
              \/ /\ ~Returned /\ thrown = GenerationUnavailable
                 /\ IsContextSufficient(relevantChunks)

\* C29, amended: with the AI service disabled a run never takes the broad path
\* and never returns 'rag' or 'summary'; the analysis is 'specific' and the
\* corrected query is the original one.  The run ends with the error of the
\* search when the search fails; else with 'rag_fallback' when the gate is not
\* passed; else with the error of the user lookup when that fails; else with
\* the generation error.
C29_DisabledNeverAnswers ==
    ~aiEnabled =>
        /\ ~OnBroad
        /\ result.searchType \notin {"rag", "summary"}
        /\ Classified => queryAnalysis.type = "specific"
        /\ (OnSpecific /\ pc # "specific") => correctedQuery = query
        /\ Done =>
              CASE lastCall = [call |-> "searchDocuments", ok |-> FALSE] ->
                      ~Returned /\ thrown \in SearchErrors
                [] lastCall = [call |-> "searchDocuments", ok |-> TRUE] ->
                      /\ result.searchType = "rag_fallback" /\ thrown = NoError
                      /\ ~IsContextSufficient(relevantChunks)
                [] lastCall = [call |-> "User.findById", ok |-> FALSE] ->
                      /\ ~Returned /\ thrown \in DbErrors
                      /\ IsContextSufficient(relevantChunks)
                [] lastCall = [call |-> "generateText", ok |-> FALSE] ->
                      /\ ~Returned /\ thrown = GenerationUnavailable
                      /\ IsContextSufficient(relevantChunks)
                [] OTHER -> FALSE

C29_Witness ==
    /\ ~aiEnabled /\ Done
    /\ thrown = GenerationUnavailable
    /\ IsContextSufficient(relevantChunks)
    /\ calls = <<"determineQueryType", "generateText", "searchDocuments",
                 "User.findById", "generateText">>

\* The list without its element at position i, and with m put after position i
RemoveAt(list, i) == SubSeq(list, 1, i - 1) \o SubSeq(list, i + 1, Len(list))
InsertAfter(list, i, m) == SubSeq(list, 1, i) \o <<m>> \o SubSeq(list, i + 1, Len(list))

\* C30: whatever happens while the request of a send is in flight, when it
\* fails the list loses exactly the user message that send appended, and when
\* it succeeds the assistant reply is put directly after that user message;
\* every other message stays as it is.
C30_SendIsAtomic ==
    [][sendRequest.status = "pending" =>
          /\ sendRequest'.status = "rejected" =>
                \E i \in 1..Len(messages) :
                   /\ messages[i] = sendRequest.userMessage
                   /\ messages' = RemoveAt(messages, i)
          /\ sendRequest'.status = "resolved" =>
                \E i \in 1..Len(messages) :
                   /\ messages[i] = sendRequest.userMessage
                   /\ messages' = InsertAfter(messages, i, messages'[Len(messages')])
                   /\ messages'[i + 1].role = "assistant"]_vars

====
